---- MODULE Spec2Model ----
(***************************************************************************)
(* Model of the patch subsystem of the Sawachi Discord bot:                *)
(*   src/patchEngine.js  tokenizer, argument splitter, operation lookup,   *)
(*                       script parser, executor (applyActions)            *)
(*   src/index.js        pendingPatches store and the `patch` command      *)
(*                       (plan / apply / cancel), dispatched by            *)
(*                       client.on('messageCreate')                        *)
(*                                                                         *)
(* Text is modelled character by character: a string of the program is a   *)
(* sequence of one-character strings, so that tokenizing, trimming and     *)
(* splitting are computed as the code computes them.                       *)
(***************************************************************************)
EXTENDS Integers, Sequences, FiniteSets, TLC

(***************************************************************************)
(* Characters and words used by the scripts of the model.                  *)
(***************************************************************************)
SP == " "
NL == "\n"
DQ == "\""
SQ == "'"

IsSpace(c) == c \in {" ", "\t", "\n", "\r"}

Rep(c, n) == [k \in 1..n |-> c]

W_set     == <<"s", "e", "t">>
W_del     == <<"d", "e", "l">>
W_keep    == <<"k", "e", "e", "p">>
W_bogus   == <<"b", "o", "g", "u", "s">>
W_channel == <<"c", "h", "a", "n", "n", "e", "l">>
W_role    == <<"r", "o", "l", "e">>
W_thing   == <<"t", "h", "i", "n", "g">>
W_star    == <<"*">>
W_id      == <<"i", "d">>
W_name    == <<"n", "a", "m", "e">>
W_Lounge  == <<"L", "o", "u", "n", "g", "e">>
W_Mods    == <<"M", "o", "d", "s">>

H_noop          == <<"n", "o", "o", "p">>
H_channelRename == <<"c", "h", "a", "n", "n", "e", "l", ".", "r", "e", "n", "a", "m", "e">>
H_channelDelete == <<"c", "h", "a", "n", "n", "e", "l", ".", "d", "e", "l", "e", "t", "e">>
H_roleRename    == <<"r", "o", "l", "e", ".", "r", "e", "n", "a", "m", "e">>
H_roleDelete    == <<"r", "o", "l", "e", ".", "d", "e", "l", "e", "t", "e">>
H_ghost         == <<"g", "h", "o", "s", "t">>
H_channelMove     == <<"c", "h", "a", "n", "n", "e", "l", ".", "m", "o", "v", "e">>
H_channelTopic    == <<"c", "h", "a", "n", "n", "e", "l", ".", "t", "o", "p", "i", "c">>
H_channelSlowmode == <<"c", "h", "a", "n", "n", "e", "l", ".", "s", "l", "o", "w", "m", "o", "d", "e">>
H_channelNsfw     == <<"c", "h", "a", "n", "n", "e", "l", ".", "n", "s", "f", "w">>
H_channelCreate   == <<"c", "h", "a", "n", "n", "e", "l", ".", "c", "r", "e", "a", "t", "e">>
H_categoryCreate  == <<"c", "a", "t", "e", "g", "o", "r", "y", ".", "c", "r", "e", "a", "t", "e">>
H_roleCreate      == <<"r", "o", "l", "e", ".", "c", "r", "e", "a", "t", "e">>
H_permSet         == <<"p", "e", "r", "m", ".", "s", "e", "t">>
H_permRemove      == <<"p", "e", "r", "m", ".", "r", "e", "m", "o", "v", "e">>
H_toString        == <<"t", "o", "S", "t", "r", "i", "n", "g">>
H_valueOf         == <<"v", "a", "l", "u", "e", "O", "f">>
H_constructor     == <<"c", "o", "n", "s", "t", "r", "u", "c", "t", "o", "r">>
H_hasOwnProperty  == <<"h", "a", "s", "O", "w", "n", "P", "r", "o", "p", "e", "r", "t", "y">>

\* identifiers of the external platform: decimal strings
ID_A   == Rep("1", 18)
ID_B   == Rep("2", 18)
ID_BAD == Rep("7", 3)

(***************************************************************************)
(* String primitives of the JavaScript runtime, on character sequences.    *)
(***************************************************************************)
\* s.slice(a, b) with 0-based a inclusive, b exclusive
Slice(s, a, b) == SubSeq(s, a + 1, b)

RECURSIVE TrimLeft(_)
TrimLeft(s) ==
    IF s /= <<>> /\ IsSpace(Head(s)) THEN TrimLeft(Tail(s)) ELSE s

RECURSIVE TrimRight(_)
TrimRight(s) ==
    IF s /= <<>> /\ IsSpace(s[Len(s)]) THEN TrimRight(SubSeq(s, 1, Len(s) - 1)) ELSE s

\* String.prototype.trim
Trim(s) == TrimRight(TrimLeft(s))

\* s.indexOf(c): 0-based index of the first c, -1 when absent
IndexOf(s, c) ==
    IF \E k \in 1..Len(s) : s[k] = c
    THEN (CHOOSE k \in 1..Len(s) : s[k] = c /\ \A j \in 1..(k - 1) : s[j] /= c) - 1
    ELSE -1

\* s.startsWith(c) for a one-character c
StartsWith(s, c) == s /= <<>> /\ Head(s) = c

\* s.split(c) for a one-character separator
RECURSIVE Split(_, _)
Split(s, c) ==
    LET k == IndexOf(s, c)
    IN  IF k < 0 THEN <<s>>
        ELSE <<Slice(s, 0, k)>> \o Split(Slice(s, k + 1, Len(s)), c)

\* text.split on a newline with an optional carriage return before it
RECURSIVE SplitLines(_)
SplitLines(s) ==
    LET k == IndexOf(s, "\n")
    IN  IF k < 0 THEN <<s>>
        ELSE LET e == IF k > 0 /\ s[k] = "\r" THEN k - 1 ELSE k
             IN  <<Slice(s, 0, e)>> \o SplitLines(Slice(s, k + 1, Len(s)))

\* s.toUpperCase() on the characters the confirm codes use
UpperChar(c) ==
    CASE c = "a" -> "A" [] c = "b" -> "B" [] c = "c" -> "C"
      [] c = "d" -> "D" [] c = "e" -> "E" [] c = "f" -> "F"
      [] OTHER -> c

ToUpperCase(s) == [k \in 1..Len(s) |-> UpperChar(s[k])]

(***************************************************************************)
(* tokenize: each match of the regular expression is a double-quoted span, *)
(* else a single-quoted span (the token is the text between the quotes),   *)
(* else a maximal run of non-space characters (the token is the run).      *)
(***************************************************************************)
\* 1-based position of the first q at or after position p, 0 when absent
NextQuote(line, p, q) ==
    IF \E k \in p..Len(line) : line[k] = q
    THEN CHOOSE k \in p..Len(line) : line[k] = q /\ \A j \in p..(k - 1) : line[j] /= q
    ELSE 0

\* 1-based position just after the run of non-space characters starting at p
RECURSIVE RunEnd(_, _)
RunEnd(line, p) ==
    IF p <= Len(line) /\ ~IsSpace(line[p]) THEN RunEnd(line, p + 1) ELSE p

RECURSIVE TokenizeFrom(_, _)
TokenizeFrom(line, p) ==
    IF p > Len(line) THEN <<>>
    ELSE IF IsSpace(line[p]) THEN TokenizeFrom(line, p + 1)
    ELSE IF line[p] \in {DQ, SQ} /\ NextQuote(line, p + 1, line[p]) /= 0
         THEN LET e == NextQuote(line, p + 1, line[p])
              IN  <<SubSeq(line, p + 1, e - 1)>> \o TokenizeFrom(line, e + 1)
         ELSE LET e == RunEnd(line, p)
              IN  <<SubSeq(line, p, e - 1)>> \o TokenizeFrom(line, e)

tokenize(line) == TokenizeFrom(line, 1)

(***************************************************************************)
(* parseKeyValue: named (key=value) and positional arguments               *)
(***************************************************************************)
NoNamed == [k \in {} |-> <<>>]

\* named[k] = v on a map held as a function
MapSet(m, k, v) == [x \in (DOMAIN m) \cup {k} |-> IF x = k THEN v ELSE m[x]]

RECURSIVE ParseKeyValueFrom(_, _, _)
ParseKeyValueFrom(tokens, named, positional) ==
    IF tokens = <<>> THEN [named |-> named, positional |-> positional]
    ELSE LET t  == Head(tokens)
             eq == IndexOf(t, "=")
         IN  IF eq > 0
             THEN ParseKeyValueFrom(Tail(tokens),
                                    MapSet(named, Trim(Slice(t, 0, eq)),
                                           Trim(Slice(t, eq + 1, Len(t)))),
                                    positional)
             ELSE ParseKeyValueFrom(Tail(tokens), named, Append(positional, t))

parseKeyValue(tokens) == ParseKeyValueFrom(tokens, NoNamed, <<>>)

(***************************************************************************)
(* JavaScript values that are not strings.                                 *)
(***************************************************************************)
\* the value of a destructured array element that does not exist
Undefined == <<"undefined">>

\* what a template literal prints for it
UndefinedText == <<"u", "n", "d", "e", "f", "i", "n", "e", "d">>

Null == [null |-> TRUE]

\* !x for a string or undefined
Falsy(x) == x = <<>> \/ x = Undefined

\* arr[k] of a destructuring assignment (0-based k)
ElemOr(arr, k) == IF k + 1 <= Len(arr) THEN arr[k + 1] ELSE Undefined

TextOf(x) == IF x = Undefined THEN UndefinedText ELSE x

TrimAll(arr) == [k \in 1..Len(arr) |-> Trim(arr[k])]

\* arr.filter(Boolean) on strings
RECURSIVE FilterNonEmpty(_)
FilterNonEmpty(arr) ==
    IF arr = <<>> THEN <<>>
    ELSE IF Head(arr) = <<>> THEN FilterNonEmpty(Tail(arr))
    ELSE <<Head(arr)>> \o FilterNonEmpty(Tail(arr))

RECURSIVE Join(_, _)
Join(arr, sep) ==
    IF arr = <<>> THEN <<>>
    ELSE IF Len(arr) = 1 THEN arr[1]
    ELSE arr[1] \o sep \o Join(Tail(arr), sep)

(***************************************************************************)
(* Operation registry: loadOpsMap and resolveOp                            *)
(***************************************************************************)
OpKey(verb, type) == TextOf(verb) \o <<":">> \o TextOf(type)

EmptyOpsMap == [k \in {} |-> Null]

RECURSIVE LoadOpsLines(_, _, _)
LoadOpsLines(lines, i, map) ==
    IF i > Len(lines) THEN map
    ELSE LET ln == Trim(lines[i])
         IN  IF ln = <<>> \/ StartsWith(ln, "#") THEN LoadOpsLines(lines, i + 1, map)
             ELSE LET sides == TrimAll(Split(ln, "="))
                      left  == ElemOr(sides, 0)
                      right == ElemOr(sides, 1)
                  IN  IF Falsy(left) \/ Falsy(right) THEN LoadOpsLines(lines, i + 1, map)
                      ELSE LET lparts    == TrimAll(Split(left, ":"))
                               rparts    == TrimAll(Split(right, ":"))
                               verb      == ElemOr(lparts, 0)
                               type      == ElemOr(lparts, 1)
                               handler   == ElemOr(rparts, 0)
                               paramsRaw == ElemOr(rparts, 1)
                               params    == IF Falsy(paramsRaw) THEN <<>>
                                            ELSE FilterNonEmpty(TrimAll(Split(paramsRaw, ",")))
                           IN  LoadOpsLines(lines, i + 1,
                                   MapSet(map, OpKey(verb, type),
                                          [handler |-> handler, params |-> params, line |-> i]))

loadOpsMap(raw) == LoadOpsLines(SplitLines(raw), 1, EmptyOpsMap)

\* variant: the wildcard entry is looked up first
resolveOp_WildcardFirst(opsMap, verb, type) ==
    IF OpKey(verb, W_star) \in DOMAIN opsMap THEN opsMap[OpKey(verb, W_star)]
    ELSE IF OpKey(verb, type) \in DOMAIN opsMap THEN opsMap[OpKey(verb, type)]
    ELSE Null

resolveOp(opsMap, verb, type) ==
    IF OpKey(verb, type) \in DOMAIN opsMap THEN opsMap[OpKey(verb, type)]
    ELSE IF OpKey(verb, W_star) \in DOMAIN opsMap THEN opsMap[OpKey(verb, W_star)]
    ELSE Null

(***************************************************************************)
(* parsePatchScript                                                        *)
(***************************************************************************)
\* variant: a parameter bound by name also uses up a positional value
RECURSIVE BindArgs_NamedConsumes(_, _, _, _)
BindArgs_NamedConsumes(params, named, positional, args) ==
    IF params = <<>> THEN args
    ELSE LET p    == Head(params)
             rest == IF positional /= <<>> THEN Tail(positional) ELSE positional
         IN  IF p \in DOMAIN named
             THEN BindArgs_NamedConsumes(Tail(params), named, rest, MapSet(args, p, named[p]))
             ELSE IF positional /= <<>>
             THEN BindArgs_NamedConsumes(Tail(params), named, rest,
                                         MapSet(args, p, Head(positional)))
             ELSE BindArgs_NamedConsumes(Tail(params), named, positional,
                                         MapSet(args, p, <<>>))

\* the loop over op.params: named value, else next positional, else ''
RECURSIVE BindArgs(_, _, _, _)
BindArgs(params, named, positional, args) ==
    IF params = <<>> THEN args
    ELSE LET p == Head(params)
         IN  IF p \in DOMAIN named
             THEN BindArgs(Tail(params), named, positional, MapSet(args, p, named[p]))
             ELSE IF positional /= <<>>
             THEN BindArgs(Tail(params), named, Tail(positional),
                           MapSet(args, p, Head(positional)))
             ELSE BindArgs(Tail(params), named, positional, MapSet(args, p, <<>>))

\* variant: a line in error ends the loop
ContinueAt_Break(lines, i) == Len(lines) + 1

\* `continue` after a diagnostic: the loop goes on with the next line
ContinueAt(lines, i) == i + 1

\* variant: the action that reaches the limit already overflows
Overflows_Never(actions, maxActions) == FALSE

\* variant: the limit is reached by the action that fills it
Overflows_AtLimit(actions, maxActions) == Len(actions) >= maxActions

\* if (actions.length > maxActions), tested after the push
Overflows(actions, maxActions) == Len(actions) > maxActions

\* i is the 1-based line number, the code's i + 1
RECURSIVE ParseLines(_, _, _, _, _, _)
ParseLines(lines, i, opsMap, maxActions, actions, errors) ==
    IF i > Len(lines) THEN [actions |-> actions, errors |-> errors, warnings |-> <<>>]
    ELSE
    LET raw  == lines[i]
        line == Trim(raw)
    IN  IF line = <<>> \/ StartsWith(line, "#")
        THEN ParseLines(lines, i + 1, opsMap, maxActions, actions, errors)
        ELSE
        LET tokens == tokenize(line)
        IN  IF Len(tokens) < 2
            THEN ParseLines(lines, ContinueAt(lines, i), opsMap, maxActions, actions,
                            Append(errors, [kind |-> "format invalide", line |-> i, op |-> <<>>]))
            ELSE
            LET hasColon  == IndexOf(tokens[1], ":") >= 0
                parts     == Split(tokens[1], ":")
                verb      == IF hasColon THEN ElemOr(parts, 0) ELSE tokens[1]
                type      == IF hasColon /\ ~Falsy(ElemOr(parts, 1))
                             THEN ElemOr(parts, 1) ELSE tokens[2]
                restIndex == IF hasColon THEN 1 ELSE 2
                op        == resolveOp(opsMap, verb, type)
            IN  IF op = Null
                THEN ParseLines(lines, ContinueAt(lines, i), opsMap, maxActions, actions,
                                Append(errors, [kind |-> "operation inconnue", line |-> i,
                                                op |-> OpKey(verb, type)]))
                ELSE
                LET kv   == parseKeyValue(SubSeq(tokens, restIndex + 1, Len(tokens)))
                    args == BindArgs(op.params, kv.named, kv.positional, NoNamed)
                    acts == Append(actions, [verb |-> verb, type |-> type,
                                             handler |-> op.handler, args |-> args,
                                             line |-> i, raw |-> raw])
                IN  IF Overflows(acts, maxActions)
                    THEN [actions |-> acts,
                          errors |-> Append(errors, [kind |-> "trop d'actions", line |-> 0,
                                                     op |-> <<>>]),
                          warnings |-> <<>>]
                    ELSE ParseLines(lines, i + 1, opsMap, maxActions, acts, errors)

parsePatchScript(scriptText, opsMap, maxActions) ==
    ParseLines(SplitLines(scriptText), 1, opsMap, maxActions, <<>>, <<>>)

(***************************************************************************)
(* buildPlanSummary: the number of actions per handler, in the order the   *)
(* handlers were first counted, sorted by descending count with the stable *)
(* Array.prototype.sort, one line of text per handler.                     *)
(***************************************************************************)
\* counts[a.handler] = (counts[a.handler] || 0) + 1 on an object whose keys
\* are listed in the order they were first assigned
RECURSIVE CountFrom(_, _)
CountFrom(actions, counts) ==
    IF actions = <<>> THEN counts
    ELSE LET h == Head(actions).handler
         IN  IF \E k \in 1..Len(counts) : counts[k][1] = h
             THEN CountFrom(Tail(actions),
                      [k \in 1..Len(counts) |->
                          IF counts[k][1] = h THEN <<h, counts[k][2] + 1>> ELSE counts[k]])
             ELSE CountFrom(Tail(actions), Append(counts, <<h, 1>>))

\* variant: an entry is placed before the entries of equal count
SortInsert_TiesFirst(sorted, e) ==
    LET before == {k \in 1..Len(sorted) : \A j \in 1..k : sorted[j][2] > e[2]}
        n      == Cardinality(before)
    IN  SubSeq(sorted, 1, n) \o <<e>> \o SubSeq(sorted, n + 1, Len(sorted))

\* one step of the stable sort by b[1] - a[1]: an entry is placed after the
\* entries whose count is not smaller
SortInsert(sorted, e) ==
    LET before == {k \in 1..Len(sorted) : \A j \in 1..k : sorted[j][2] >= e[2]}
        n      == Cardinality(before)
    IN  SubSeq(sorted, 1, n) \o <<e>> \o SubSeq(sorted, n + 1, Len(sorted))

RECURSIVE SortDescFrom(_, _)
SortDescFrom(entries, sorted) ==
    IF entries = <<>> THEN sorted
    ELSE SortDescFrom(Tail(entries), SortInsert(sorted, Head(entries)))

DigitChars == <<"0", "1", "2", "3", "4", "5", "6", "7", "8", "9">>

\* String(n) for a natural number
RECURSIVE NumberText(_)
NumberText(n) ==
    IF n < 10 THEN <<DigitChars[n + 1]>>
    ELSE NumberText(n \div 10) \o <<DigitChars[(n % 10) + 1]>>

\* stands for the bullet character U+2022 that starts a line of the summary
Bullet == "*"

AucuneAction == <<"A", "u", "c", "u", "n", "e", " ", "a", "c", "t", "i", "o", "n", ".">>

\* the lines of the summary, before they are joined
SummaryLines(actions) ==
    LET sorted == SortDescFrom(CountFrom(actions, <<>>), <<>>)
    IN  [k \in 1..Len(sorted) |->
            <<Bullet, " ">> \o sorted[k][1] \o <<":", " ">> \o NumberText(sorted[k][2])]

buildPlanSummary(actions) ==
    IF SummaryLines(actions) = <<>> THEN AucuneAction
    ELSE Join(SummaryLines(actions), <<NL>>)

(***************************************************************************)
(* Executor: HANDLERS and the handlers the model's registry can name.      *)
(*                                                                         *)
(* A handler call runs synchronously up to its first await of the external *)
(* API.  A handler that returns or throws before any such await completes  *)
(* within the caller's turn of the event loop (only microtasks separate it *)
(* from the next statement), so no other command can run in between.  A    *)
(* handler that awaits the external API (fetch of the target, then the     *)
(* mutating call) suspends the whole apply until the API settles, and      *)
(* other commands are dispatched meanwhile.                                *)
(***************************************************************************)
HANDLERS ==
    { H_noop, H_channelRename, H_channelMove, H_channelTopic, H_channelSlowmode,
      H_channelNsfw, H_channelCreate, H_channelDelete, H_categoryCreate, H_roleRename,
      H_roleCreate, H_roleDelete, H_permSet, H_permRemove }

Digits == {"0", "1", "2", "3", "4", "5", "6", "7", "8", "9"}

\* SNOWFLAKE_RE.test(v): 17 to 20 decimal digits (undefined prints as text)
IsSnowflake(v) ==
    /\ v /= Undefined
    /\ Len(v) >= 17
    /\ Len(v) <= 20
    /\ \A k \in 1..Len(v) : v[k] \in Digits

\* args.p of the bound arguments
ArgOf(args, p) == IF p \in DOMAIN args THEN args[p] ELSE Undefined

W_parent  == <<"p", "a", "r", "e", "n", "t">>
W_seconds == <<"s", "e", "c", "o", "n", "d", "s">>
W_enabled == <<"e", "n", "a", "b", "l", "e", "d">>
W_ctype   == <<"c", "t", "y", "p", "e">>
W_allow   == <<"a", "l", "l", "o", "w">>
W_deny    == <<"d", "e", "n", "y">>
W_none    == <<"n", "o", "n", "e">>

UpperLetters == <<"A", "B", "C", "D", "E", "F", "G", "H", "I", "J", "K", "L", "M", "N", "O", "P", "Q", "R", "S", "T", "U", "V", "W", "X", "Y", "Z">>

LowerLetters == <<"a", "b", "c", "d", "e", "f", "g", "h", "i", "j", "k", "l", "m", "n", "o", "p", "q", "r", "s", "t", "u", "v", "w", "x", "y", "z">>

\* s.toLowerCase() on the letters of the basic alphabet
LowerChar(c) ==
    IF \E k \in 1..Len(UpperLetters) : UpperLetters[k] = c
    THEN LowerLetters[CHOOSE k \in 1..Len(UpperLetters) : UpperLetters[k] = c]
    ELSE c

ToLowerCase(s) == [k \in 1..Len(s) |-> LowerChar(s[k])]

\* parseBool(v): [isNull |-> TRUE] for null, else the boolean
parseBool(v) ==
    IF v = Undefined THEN [isNull |-> TRUE, b |-> FALSE]
    ELSE LET t == ToLowerCase(v)
         IN  IF t \in {<<"t", "r", "u", "e">>, <<"1">>, <<"y", "e", "s">>, <<"o", "n">>} THEN [isNull |-> FALSE, b |-> TRUE]
             ELSE IF t \in {<<"f", "a", "l", "s", "e">>, <<"0">>, <<"n", "o">>, <<"o", "f", "f">>} THEN [isNull |-> FALSE, b |-> FALSE]
             ELSE [isNull |-> TRUE, b |-> FALSE]

\* the value of a run of decimal digits
RECURSIVE DigitsValue(_)
DigitsValue(d) ==
    IF d = <<>> THEN 0
    ELSE 10 * DigitsValue(SubSeq(d, 1, Len(d) - 1))
         + (CHOOSE n \in 0..9 : DigitChars[n + 1] = d[Len(d)])

\* 1-based position just after the run of digits starting at p
RECURSIVE DigitsEnd(_, _)
DigitsEnd(s, p) == IF p <= Len(s) /\ s[p] \in Digits THEN DigitsEnd(s, p + 1) ELSE p

\* parseIntSafe(v): parseInt(v, 10) reads leading white space, a sign and
\* the longest run of digits; [isNull |-> TRUE] when there is no digit
parseIntSafe(v) ==
    LET t      == TrimLeft(TextOf(v))
        signed == t /= <<>> /\ t[1] \in {"+", "-"}
        from   == IF signed THEN 2 ELSE 1
        e      == DigitsEnd(t, from)
    IN  IF e = from THEN [isNull |-> TRUE, n |-> 0]
        ELSE [isNull |-> FALSE,
              n |-> IF signed /\ t[1] = "-" THEN 0 - DigitsValue(SubSeq(t, from, e - 1))
                    ELSE DigitsValue(SubSeq(t, from, e - 1))]

\* parsePermList(listStr)
parsePermList(listStr) ==
    IF Falsy(listStr) THEN <<>> ELSE FilterNonEmpty(TrimAll(Split(listStr, ",")))

\* names of PermissionsBitField.Flags the scripts of the model use
PermissionFlags == {<<"V", "i", "e", "w", "C", "h", "a", "n", "n", "e", "l">>, <<"S", "e", "n", "d", "M", "e", "s", "s", "a", "g", "e", "s">>, <<"M", "a", "n", "a", "g", "e", "C", "h", "a", "n", "n", "e", "l", "s">>}

\* the message toOverwriteObject throws, "" when every name is a flag
OverwriteError(allowList, denyList) ==
    IF \E k \in 1..Len(allowList) : allowList[k] \notin PermissionFlags
    THEN "Permission inconnue (allow)"
    ELSE IF \E k \in 1..Len(denyList) : denyList[k] \notin PermissionFlags
    THEN "Permission inconnue (deny)"
    ELSE ""

\* mapChannelType(ctype) === null
ChannelTypeNames == {<<"t", "e", "x", "t">>, <<"v", "o", "i", "c", "e">>, <<"f", "o", "r", "u", "m">>, <<"a", "n", "n", "o", "u", "n", "c", "e", "m", "e", "n", "t">>, <<"n", "e", "w", "s">>, <<"s", "t", "a", "g", "e">>, <<"c", "a", "t", "e", "g", "o", "r", "y">>}

ChannelTypeUnknown(ctype) ==
    ToLowerCase(IF Falsy(ctype) THEN <<>> ELSE ctype) \notin ChannelTypeNames

(***************************************************************************)
(* The body of a handler as the list of its statements that can end it or  *)
(* call the external API, in source order:                                 *)
(*   check   throws error when error is not ""                             *)
(*   lookup  cache.get(id) || await fetch(id).catch(() => null), then      *)
(*           throws error when there is no target                          *)
(*   support throws error when the target lacks the method to be called    *)
(*   mutate  the awaited call that changes the guild                       *)
(* A handler that reaches the end of the list returns.                     *)
(***************************************************************************)
Check(error) == [kind |-> "check", error |-> error, id |-> <<>>]

Lookup(id, error) == [kind |-> "lookup", error |-> error, id |-> id]

Support(error) == [kind |-> "support", error |-> error, id |-> <<>>]

Mutate == [kind |-> "mutate", error |-> "", id |-> <<>>]

\* if (!SNOWFLAKE_RE.test(v)) throw new Error(msg)
CheckId(v, msg) == Check(IF IsSnowflake(v) THEN "" ELSE msg)

\* if (!name) throw new Error('name vide')
CheckName(v) == Check(IF Falsy(v) THEN "name vide" ELSE "")

\* if (parent && parent !== 'none' && !SNOWFLAKE_RE.test(parent)) throw
CheckParent(v) ==
    Check(IF ~Falsy(v) /\ v /= W_none /\ ~IsSnowflake(v) THEN "parent invalide" ELSE "")

\* variant: the handlers call the API before they validate
HandlerSteps_MutateFirst(handler, args) ==
    CASE handler = H_noop -> <<>>
      [] handler \in {H_channelRename, H_roleRename} ->
           <<Mutate, CheckId(ArgOf(args, W_id), "id invalide"), CheckName(ArgOf(args, W_name))>>
      [] handler \in {H_channelDelete, H_roleDelete} ->
           <<Mutate, CheckId(ArgOf(args, W_id), "id invalide")>>
      [] handler \in {H_channelCreate, H_categoryCreate, H_roleCreate} ->
           <<Mutate, CheckName(ArgOf(args, W_name))>>
      [] OTHER ->
           <<Mutate, CheckId(ArgOf(args, IF handler \in {H_permSet, H_permRemove}
                                         THEN W_channel ELSE W_id), "id invalide")>>

HandlerSteps(handler, args) ==
    CASE handler = H_noop ->
           <<>>
      [] handler = H_channelRename ->
           <<CheckId(ArgOf(args, W_id), "id invalide"),
             CheckName(ArgOf(args, W_name)),
             Lookup(ArgOf(args, W_id), "introuvable"),
             Mutate>>
      [] handler = H_channelMove ->
           <<CheckId(ArgOf(args, W_id), "id invalide"),
             Lookup(ArgOf(args, W_id), "introuvable"),
             CheckParent(ArgOf(args, W_parent)),
             Mutate>>
      [] handler = H_channelTopic ->
           <<Lookup(ArgOf(args, W_id), "introuvable"),
             Support("topic non supporte"),
             Mutate>>
      [] handler = H_channelSlowmode ->
           <<Check(IF parseIntSafe(ArgOf(args, W_seconds)).isNull
                      \/ parseIntSafe(ArgOf(args, W_seconds)).n < 0
                   THEN "seconds invalide" ELSE ""),
             Lookup(ArgOf(args, W_id), "introuvable"),
             Support("slowmode non supporte"),
             Mutate>>
      [] handler = H_channelNsfw ->
           <<Check(IF parseBool(ArgOf(args, W_enabled)).isNull
                   THEN "enabled invalide" ELSE ""),
             Lookup(ArgOf(args, W_id), "introuvable"),
             Support("NSFW non supporte"),
             Mutate>>
      [] handler = H_channelCreate ->
           <<CheckName(ArgOf(args, W_name)),
             Check(IF ChannelTypeUnknown(ArgOf(args, W_ctype)) THEN "ctype invalide" ELSE ""),
             CheckParent(ArgOf(args, W_parent)),
             Mutate>>
      [] handler = H_channelDelete ->
           <<CheckId(ArgOf(args, W_id), "id invalide"),
             Lookup(ArgOf(args, W_id), "introuvable"),
             Mutate>>
      [] handler = H_categoryCreate ->
           <<CheckName(ArgOf(args, W_name)), Mutate>>
      [] handler = H_roleRename ->
           <<CheckId(ArgOf(args, W_id), "id invalide"),
             CheckName(ArgOf(args, W_name)),
             Lookup(ArgOf(args, W_id), "introuvable"),
             Mutate>>
      [] handler = H_roleCreate ->
           <<CheckName(ArgOf(args, W_name)), Mutate>>
      [] handler = H_roleDelete ->
           <<CheckId(ArgOf(args, W_id), "id invalide"),
             Lookup(ArgOf(args, W_id), "introuvable"),
             Mutate>>
      [] handler = H_permSet ->
           <<CheckId(ArgOf(args, W_channel), "channel invalide"),
             CheckId(ArgOf(args, W_role), "role invalide"),
             Lookup(ArgOf(args, W_channel), "introuvable"),
             Check(OverwriteError(parsePermList(ArgOf(args, W_allow)),
                                  parsePermList(ArgOf(args, W_deny)))),
             Mutate>>
      [] handler = H_permRemove ->
           <<CheckId(ArgOf(args, W_channel), "channel invalide"),
             CheckId(ArgOf(args, W_role), "role invalide"),
             Lookup(ArgOf(args, W_channel), "introuvable"),
             Mutate>>

\* The synchronous prefix of a handler: "return" (no await at all),
\* "throw" with the message of the failed validation, or "await" when the
\* handler goes on to call the external API.
RECURSIVE SyncOf(_, _)
SyncOf(steps, p) ==
    IF p > Len(steps) THEN [kind |-> "return", error |-> ""]
    ELSE IF steps[p].kind = "check"
    THEN IF steps[p].error /= "" THEN [kind |-> "throw", error |-> steps[p].error]
         ELSE SyncOf(steps, p + 1)
    ELSE [kind |-> "await", error |-> ""]

HandlerSync(handler, args) == SyncOf(HandlerSteps(handler, args), 1)

\* HANDLERS[name] for a name that is not an own key of the object literal:
\* the functions of Object.prototype are found through the prototype chain.
\* Called with no receiver, toString and the Object constructor return,
\* the others throw a TypeError.
InheritedReturns == {H_toString, H_constructor}

InheritedThrows == {H_valueOf, H_hasOwnProperty}

\* what `const fn = HANDLERS[a.handler]` finds
FnOf(handler) ==
    IF handler \in HANDLERS THEN "handler"
    ELSE IF handler \in InheritedReturns THEN "returns"
    ELSE IF handler \in InheritedThrows THEN "throws"
    ELSE "undefined"

\* How the external API can settle the awaited part of a handler call: the
\* mutation succeeds, or the handler throws (target not found; a rejection
\* by the API differs from it by its message only).
ApiOutcomes == {"ok", "introuvable"}

\* results.push(...) of applyActions
ResultOk(a) == [ok |-> TRUE, line |-> a.line, handler |-> a.handler, error |-> "",
                changed |-> a.handler /= H_noop]

\* the result when fn was a function of Object.prototype that returned: a
\* value without the fields of a handler result is spread into it
ResultInherited(a) == [ok |-> TRUE, line |-> a.line, handler |-> a.handler, error |-> ""]

ResultThrown(a, msg) == [ok |-> FALSE, line |-> a.line, handler |-> a.handler, error |-> msg]

ResultUnknown(a) == [ok |-> FALSE, line |-> a.line, handler |-> Undefined,
                     error |-> "handler inconnu"]

\* The loop of applyActions from action i (1-based) on, as far as it runs
\* without suspending: up to the first handler that awaits the external API
\* (awaiting = TRUE, i = that action) or to the end of the list.
RECURSIVE RunFrom(_, _, _)
RunFrom(actions, i, results) ==
    IF i > Len(actions) THEN [i |-> i, results |-> results, awaiting |-> FALSE]
    ELSE LET a == actions[i]
         IN  IF FnOf(a.handler) = "undefined"
             THEN RunFrom(actions, i + 1, Append(results, ResultUnknown(a)))
             ELSE IF FnOf(a.handler) = "returns"
             THEN RunFrom(actions, i + 1, Append(results, ResultInherited(a)))
             ELSE IF FnOf(a.handler) = "throws"
             THEN RunFrom(actions, i + 1, Append(results, ResultThrown(a, "TypeError")))
             ELSE LET r == HandlerSync(a.handler, a.args)
                  IN  CASE r.kind = "return" ->
                             RunFrom(actions, i + 1, Append(results, ResultOk(a)))
                        [] r.kind = "throw" ->
                             RunFrom(actions, i + 1, Append(results, ResultThrown(a, r.error)))
                        [] OTHER ->
                             [i |-> i, results |-> results, awaiting |-> TRUE]

\* variant: the loop awaits the same handler call again, whatever it gave
SettleFrom_AwaitAgain(actions, i, results, o) ==
    [i |-> i, results |-> results, awaiting |-> TRUE]

\* variant: a handler that throws ends the batch
SettleFrom_AbortOnThrow(actions, i, results, o) ==
    IF o = "ok" THEN RunFrom(actions, i + 1, Append(results, ResultOk(actions[i])))
    ELSE [i |-> Len(actions) + 1,
          results |-> Append(results, ResultThrown(actions[i], o)),
          awaiting |-> FALSE]

\* The handler awaited at action i settles with outcome o: its result is
\* pushed and the loop goes on from action i + 1.
SettleFrom(actions, i, results, o) ==
    RunFrom(actions, i + 1,
            Append(results, IF o = "ok" THEN ResultOk(actions[i])
                            ELSE ResultThrown(actions[i], o)))

\* The indices in lo..hi whose handler function was called
CalledIn(actions, lo, hi) ==
    {k \in lo..hi : k <= Len(actions) /\ FnOf(actions[k].handler) /= "undefined"}

(***************************************************************************)
(* Inputs of the model: the ops.map file, the patch scripts users attach,  *)
(* the confirm codes the random generator can produce and the codes users  *)
(* submit.                                                                 *)
(***************************************************************************)
W_zap == <<"z", "a", "p">>

OpsText ==
    Join(<< <<"#", " ", "o", "p", "s">>,
            W_set \o <<":">> \o W_channel \o <<" ", "=", " ">> \o H_channelRename
                  \o <<":">> \o W_id \o <<",">> \o W_name,
            W_set \o <<":">> \o W_star \o <<" ", "=", " ">> \o H_roleRename
                  \o <<":">> \o W_id \o <<",">> \o W_name,
            W_del \o <<":">> \o W_channel \o <<" ", "=", " ">> \o H_channelDelete
                  \o <<":">> \o W_id,
            W_keep \o <<":">> \o W_star \o <<" ", "=", " ">> \o H_noop,
            W_zap \o <<":">> \o W_channel \o <<" ", "=", " ">> \o H_ghost \o <<":">> \o W_id
         >>, <<NL>>)

\* rename a channel, fail the identifier check of a role, rename a role
ScriptRename ==
    Join(<< <<"#", " ", "r">>,
            W_set \o <<SP>> \o W_channel \o <<SP>> \o ID_A \o <<SP>> \o W_name \o <<"=">> \o W_Lounge,
            W_set \o <<SP>> \o W_role \o <<SP>> \o ID_BAD \o <<SP>> \o W_Mods,
            W_set \o <<":">> \o W_role \o <<SP>> \o ID_B \o <<SP>> \o W_Mods
         >>, <<NL>>)

\* a delete-class action between a no-op and a handler nobody implements
ScriptDelete ==
    Join(<< W_keep \o <<SP>> \o W_role \o <<SP>> \o ID_B,
            W_del \o <<SP>> \o W_channel \o <<SP>> \o ID_A,
            W_zap \o <<SP>> \o W_channel \o <<SP>> \o ID_A
         >>, <<NL>>)

\* one resolvable line and one unknown operation
ScriptBogus ==
    Join(<< W_set \o <<SP>> \o W_channel \o <<SP>> \o ID_A \o <<SP>> \o W_Lounge,
            W_bogus \o <<SP>> \o W_thing
         >>, <<NL>>)

\* no operation line: a comment, an empty line, a line of blanks
ScriptComments ==
    Join(<< <<"#", " ", "r">>, <<>>, <<SP, SP>> >>, <<NL>>)

\* one operation more than PATCH_MAX_ACTIONS, all resolvable
ScriptOver ==
    Join(<< W_keep \o <<SP>> \o W_role \o <<SP>> \o ID_A,
            W_keep \o <<SP>> \o W_role \o <<SP>> \o ID_B,
            W_keep \o <<SP>> \o W_channel \o <<SP>> \o ID_A,
            W_keep \o <<SP>> \o W_channel \o <<SP>> \o ID_B
         >>, <<NL>>)

\* keep role resolves to a no-op in ops.map as shipped and to role.delete
\* once it is edited
ScriptKeepRole == W_keep \o <<SP>> \o W_role \o <<SP>> \o ID_B

\* around the deletion of a channel, keep role, which the edited ops.map
\* resolves to role.delete, and keep channel, which it no longer contains
ScriptMixed ==
    Join(<< W_keep \o <<SP>> \o W_role \o <<SP>> \o ID_B,
            W_del \o <<SP>> \o W_channel \o <<SP>> \o ID_A,
            W_keep \o <<SP>> \o W_channel \o <<SP>> \o ID_A
         >>, <<NL>>)

ScriptList == <<ScriptRename, ScriptDelete, ScriptBogus, ScriptComments, ScriptOver,
                ScriptKeepRole, ScriptMixed>>

\* the attachments of the exploration of hot reloads
ScriptsHot == {ScriptDelete, ScriptKeepRole, ScriptMixed}

Scripts == {ScriptRename, ScriptDelete, ScriptBogus}

\* the attachments of the exploration of plan sizes
ScriptsSized == {ScriptDelete, ScriptComments, ScriptOver}

ScriptsAll == {ScriptList[k] : k \in 1..Len(ScriptList)}

\* history only: the position of a script in ScriptList
ScriptNo(text) == CHOOSE k \in 1..Len(ScriptList) : ScriptList[k] = text

CODE_1 == <<"A", "1", "B", "2", "C", "3">>
CODE_2 == <<"0", "F", "9", "E", "8", "D">>

\* makeConfirmCode: three random bytes in upper-case hexadecimal
CodePool == {CODE_1, CODE_2}

\* what a user may type after `!patch apply`
SubmittedCodes == {CODE_1, CODE_2, <<"a", "1", "b", "2", "c", "3">>}

\* the guilds whose members send patch commands
Guilds == {"g1"}

\* the guilds of the two-guild exploration
GuildsTwo == {"g1", "g2"}

PATCH_CONFIRM_TTL_MS == 10 * 60 * 1000

\* process.env.PATCH_MAX_ACTIONS of the modelled deployment
PATCH_MAX_ACTIONS == 3

\* process.env.PATCH_ALLOW_DELETES is not set
PATCH_ALLOW_DELETES_DEFAULT == FALSE

\* bounds of the exploration
MaxRequests == 3
MaxTicks == 2

TickSteps == {1, PATCH_CONFIRM_TTL_MS}

\* let opsMap = loadOpsMap(OPS_PATH)
OpsMapLoaded == loadOpsMap(OpsText)

\* parsePatchScript(text, opsMap, { maxActions: PATCH_MAX_ACTIONS })
ParsedScript == [t \in ScriptsAll |-> parsePatchScript(t, OpsMapLoaded, PATCH_MAX_ACTIONS)]

\* ops.map after an edit: keep role now deletes the role and zap channel
\* has become a no-op
OpsTextTwo ==
    Join(<< W_set \o <<":">> \o W_channel \o <<" ", "=", " ">> \o H_channelRename
                  \o <<":">> \o W_id \o <<",">> \o W_name,
            W_set \o <<":">> \o W_star \o <<" ", "=", " ">> \o H_roleRename
                  \o <<":">> \o W_id \o <<",">> \o W_name,
            W_del \o <<":">> \o W_channel \o <<" ", "=", " ">> \o H_channelDelete
                  \o <<":">> \o W_id,
            W_keep \o <<":">> \o W_role \o <<" ", "=", " ">> \o H_roleDelete
                  \o <<":">> \o W_id,
            W_zap \o <<":">> \o W_channel \o <<" ", "=", " ">> \o H_noop
         >>, <<NL>>)

\* the contents ops.map can have on disk
OpsFiles == <<OpsText, OpsTextTwo>>

\* loadOpsMap(OPS_PATH) for each content of the file
OpsMapTwo == loadOpsMap(OpsTextTwo)

OpsTables == <<OpsMapLoaded, OpsMapTwo>>

\* parsePatchScript(text, opsMap, { maxActions: PATCH_MAX_ACTIONS }) for each
\* table opsMap can hold
ParsedScriptTwo == [t \in ScriptsAll |-> parsePatchScript(t, OpsMapTwo, PATCH_MAX_ACTIONS)]

ParsedTable == <<ParsedScript, ParsedScriptTwo>>

\* the table in memory is held as the number of the content it was loaded
\* from: map stands for OpsTables[map]
ParseWith(map, text) == ParsedTable[map][text]

(***************************************************************************)
(* State                                                                   *)
(***************************************************************************)
VARIABLES
    pendingPatches, \* guild id -> NoPatch or {code, actions, createdAt, hasDeletes}
    now,            \* Date.now()
    inflight,       \* apply commands suspended at an await of applyActions
    lastReply,      \* the last message.reply of a patch command
    nreq,           \* number of patch commands dispatched so far
    ticks,          \* number of clock steps so far
    stored,         \* history: plan commands that stored a PendingPatch
    refused,        \* history: applies refused at a gate of a stored patch
    reached,        \* history: applies that passed the four gates
    calls,          \* history: handler functions called by applyActions
    env             \* the registry and the functions explored one by one (below)

vars == <<pendingPatches, now, inflight, lastReply, nreq, ticks, stored, refused, reached,
          calls, env>>

\* parser exploration: the lines of the script under test
pin == env.pin

\* parser exploration: what the function under test returned
pout == env.pout

\* which content ops.map has on disk
opsFile == env.opsFile

\* let opsMap: the registry table in memory, OpsTables[opsMap]
opsMap == env.opsMap

\* history: the content the last completed load read
opsLoaded == env.opsLoaded

\* executor exploration: one call of applyActions (below)
ex == env.ex

\* embed exploration: the description under test
desc == env.desc

\* interactive.suggestions: suggestion id -> NoSuggestion or {up, down}
suggestions == env.votes.suggestions

\* history: the number of vote buttons pressed so far, and the last press
presses == env.votes.presses

lastPress == env.votes.lastPress

\* the state of the bot, which the parser exploration leaves alone
botvars == <<pendingPatches, now, inflight, lastReply, nreq, ticks, stored, refused, reached,
             calls>>

\* the registry and the explorations, which the patch commands leave alone
pvars == <<env>>

\* nothing has been parsed or resolved yet
NoOut == [kind |-> "none"]

\* no call of applyActions has started; the script is still being written
NoExec ==
    [script |-> <<>>, actions |-> <<>>, i |-> 0, pos |-> 0, results |-> <<>>, log |-> <<>>,
     invoked |-> <<>>, cache |-> NoNamed, target |-> "", pc |-> "edit"]

\* interactive.suggestions.get(id) of an absent key
NoSuggestion == [absent |-> TRUE]

SuggestionIds == {"s1", "s2"}

Users == {"u1", "u2"}

NoPress == [user |-> "", id |-> "", action |-> "", held |-> ""]

NoVotes ==
    [suggestions |-> [id \in SuggestionIds |-> NoSuggestion], presses |-> 0,
     lastPress |-> NoPress]

\* pendingPatches.get(id) of an absent key
NoPatch == [absent |-> TRUE]

Reply(req, g, sub, title, results, code) ==
    [req |-> req, guild |-> g, sub |-> sub, title |-> title, results |-> results,
     code |-> code]

\* no command has been answered yet
NoReply == Reply(0, "", "", "", <<>>, <<>>)

Init ==
    /\ pendingPatches = [g \in GuildsTwo |-> NoPatch]
    /\ now = 0
    /\ inflight = {}
    /\ lastReply = NoReply
    /\ nreq = 0
    /\ ticks = 0
    /\ stored = {}
    /\ refused = {}
    /\ reached = {}
    /\ calls = {}
    /\ env = [pin |-> <<>>, pout |-> NoOut, opsFile |-> 1, opsMap |-> 1, opsLoaded |-> 1,
              ex |-> NoExec, votes |-> NoVotes, desc |-> <<>>]

\* client.on('messageCreate') starts the handler of every command message
\* at once; nothing makes a command wait for the commands before it.
CanDispatch == nreq < MaxRequests

(***************************************************************************)
(* registerCommand('patch'): cancel, plan, apply                           *)
(***************************************************************************)
\* variant: the delete empties the map
StoreDelete_Clear(store, g) == [h \in DOMAIN store |-> NoPatch]

\* variant: the delete leaves the entry in place
StoreDelete_KeepSlot(store, g) == store

\* pendingPatches.delete(guild.id)
StoreDelete(store, g) == [store EXCEPT ![g] = NoPatch]

\* variant: a new plan keeps the confirm code of the plan it replaces
StoreSet_KeepCode(store, g, patch) ==
    IF store[g] = NoPatch THEN [store EXCEPT ![g] = patch]
    ELSE [store EXCEPT ![g] = [patch EXCEPT !.code = store[g].code]]

\* pendingPatches.set(guild.id, patch)
StoreSet(store, g, patch) == [store EXCEPT ![g] = patch]

\* variant: only the deletion of a channel counts as destructive
HasDeletes_ChannelOnly(actions) ==
    \E k \in 1..Len(actions) : actions[k].handler = H_channelDelete

\* actions.some(a => a.handler === 'channel.delete' || a.handler === 'role.delete')
HasDeletes(actions) ==
    \E k \in 1..Len(actions) : actions[k].handler \in {H_channelDelete, H_roleDelete}

\* `!patch cancel`
Cancel(g) ==
    /\ CanDispatch
    /\ nreq' = nreq + 1
    /\ pendingPatches' = StoreDelete(pendingPatches, g)
    /\ lastReply' = Reply(nreq + 1, g, "cancel", "Patch annule", <<>>, <<>>)
    /\ UNCHANGED <<now, inflight, ticks, stored, refused, reached, calls>>
    /\ UNCHANGED pvars

\* `!patch plan` without an attachment
PlanNoAttachment(g) ==
    /\ CanDispatch
    /\ nreq' = nreq + 1
    /\ lastReply' = Reply(nreq + 1, g, "plan", "Erreur", <<>>, <<>>)
    /\ UNCHANGED <<pendingPatches, now, inflight, ticks, stored, refused, reached, calls>>
    /\ UNCHANGED pvars

\* variant: the plan stores the actions in reverse order
NewPatch_Reversed(req, code, actions) ==
    [code |-> code,
     actions |-> [k \in 1..Len(actions) |-> actions[Len(actions) + 1 - k]],
     createdAt |-> now, hasDeletes |-> HasDeletes(actions), id |-> req]

\* the object a plan stores; id is history (the plan command that made it)
NewPatch(req, code, actions) ==
    [code |-> code, actions |-> actions, createdAt |-> now,
     hasDeletes |-> HasDeletes(actions), id |-> req]

\* variant: the actions parsed so far are stored despite the errors
PlanStore_DespiteErrors(store, g, res, patch) == StoreSet(store, g, patch)

\* what plan does to the store once the script is parsed
PlanStore(store, g, res, patch) ==
    IF Len(res.errors) > 0 THEN store ELSE StoreSet(store, g, patch)

\* variant: the plan parses against the table loaded at startup
PlanTable_Startup(current) == 1

\* the table the plan hands to parsePatchScript: the value of opsMap when
\* the call is made
PlanTable(current) == current

\* `!patch plan` with an attachment.  The handler awaits the download of the
\* attachment before it reads or writes any state of the bot (opsMap,
\* Date.now(), pendingPatches); all that follows the download runs without
\* suspending, so the command acts on the state as it is when the download
\* completes, which is the step this action takes.
Plan(g, text, code) ==
    /\ CanDispatch
    /\ nreq' = nreq + 1
    /\ LET req   == nreq + 1
           res   == ParseWith(PlanTable(opsMap), text)
           patch == NewPatch(req, code, res.actions)
       IN  /\ pendingPatches' = PlanStore(pendingPatches, g, res, patch)
           /\ lastReply' = IF Len(res.errors) > 0
                           THEN Reply(req, g, "plan", "Patch invalide", <<>>, <<>>)
                           ELSE Reply(req, g, "plan", "Patch PLAN (dry-run)", <<>>, code)
           /\ stored' = IF Len(res.errors) > 0 THEN stored
                        ELSE stored \cup {[id |-> req, guild |-> g, code |-> code,
                                           script |-> ScriptNo(text), at |-> now]}
    /\ UNCHANGED <<now, inflight, ticks, refused, reached, calls>>
    /\ UNCHANGED pvars

\* variant: a patch whose age equals the TTL has expired
ApplyGate_ExpiresAtTTL(pending, code, allowDeletes) ==
    IF pending = NoPatch THEN "Erreur"
    ELSE IF now - pending.createdAt >= PATCH_CONFIRM_TTL_MS THEN "Expire"
    ELSE IF pending.code /= code THEN "Code invalide"
    ELSE IF pending.hasDeletes /\ ~allowDeletes THEN "Suppression bloquee"
    ELSE ""

\* variant: the code is compared before the age of the patch is looked at
ApplyGate_CodeFirst(pending, code, allowDeletes) ==
    IF pending = NoPatch THEN "Erreur"
    ELSE IF pending.code /= code THEN "Code invalide"
    ELSE IF now - pending.createdAt > PATCH_CONFIRM_TTL_MS THEN "Expire"
    ELSE IF pending.hasDeletes /\ ~allowDeletes THEN "Suppression bloquee"
    ELSE ""

\* variant: the expiry gate is missing
ApplyGate_NoExpiry(pending, code, allowDeletes) ==
    IF pending = NoPatch THEN "Erreur"
    ELSE IF pending.code /= code THEN "Code invalide"
    ELSE IF pending.hasDeletes /\ ~allowDeletes THEN "Suppression bloquee"
    ELSE ""

\* variant: the destructive gate is missing
ApplyGate_NoDestructive(pending, code, allowDeletes) ==
    IF pending = NoPatch THEN "Erreur"
    ELSE IF now - pending.createdAt > PATCH_CONFIRM_TTL_MS THEN "Expire"
    ELSE IF pending.code /= code THEN "Code invalide"
    ELSE ""

\* The gates of `!patch apply`, in the order of the code: the title of the
\* reply of the first gate that fails, "" when all four pass.
ApplyGate(pending, code, allowDeletes) ==
    IF pending = NoPatch THEN "Erreur"
    ELSE IF now - pending.createdAt > PATCH_CONFIRM_TTL_MS THEN "Expire"
    ELSE IF pending.code /= code THEN "Code invalide"
    ELSE IF pending.hasDeletes /\ ~allowDeletes THEN "Suppression bloquee"
    ELSE ""

\* variant: any refusal consumes the patch
GateStore_DeleteOnRefusal(store, g, gate) == StoreDelete(store, g)

\* variant: an expired patch stays in the store
GateStore_KeepExpired(store, g, gate) == store

\* what a failed gate does to the store: only the expiry gate deletes
GateStore(store, g, gate) == IF gate = "Expire" THEN StoreDelete(store, g) ELSE store

\* variant: the loop starts the handlers of all the remaining actions at once
CallsOf_StartAll(req, pending, allowDeletes, lo, run) ==
    {[req |-> req, plan |-> pending.id, idx |-> k, handler |-> pending.actions[k].handler,
      args |-> pending.actions[k].args, allow |-> allowDeletes] :
        k \in CalledIn(pending.actions, lo, Len(pending.actions))}

\* history: the handler calls a run of the loop makes for apply req
CallsOf(req, pending, allowDeletes, lo, run) ==
    {[req |-> req, plan |-> pending.id, idx |-> k, handler |-> pending.actions[k].handler,
      args |-> pending.actions[k].args, allow |-> allowDeletes] :
        k \in CalledIn(pending.actions, lo, IF run.awaiting THEN run.i ELSE run.i - 1)}

\* variant: the patch is kept for a retry when an action failed
ApplyDone_KeepOnFailure(req, g, results) ==
    /\ pendingPatches' = IF \E k \in 1..Len(results) : ~results[k].ok THEN pendingPatches
                         ELSE StoreDelete(pendingPatches, g)
    /\ lastReply' = Reply(req, g, "apply", "Patch APPLY termine", results, <<>>)

\* applyActions has returned: pendingPatches.delete(guild.id) and the reply
ApplyDone(req, g, results) ==
    /\ pendingPatches' = StoreDelete(pendingPatches, g)
    /\ lastReply' = Reply(req, g, "apply", "Patch APPLY termine", results, <<>>)

\* `!patch apply <CODE> [--allow-deletes]`: the gates, then applyActions up
\* to its first await of the external API
Apply(g, submitted, flag) ==
    /\ CanDispatch
    /\ nreq' = nreq + 1
    /\ LET req          == nreq + 1
           code         == ToUpperCase(submitted)
           allowDeletes == flag \/ PATCH_ALLOW_DELETES_DEFAULT
           pending      == pendingPatches[g]
           gate         == ApplyGate(pending, code, allowDeletes)
       IN  IF gate /= ""
           THEN /\ pendingPatches' = GateStore(pendingPatches, g, gate)
                /\ lastReply' = Reply(req, g, "apply", gate, <<>>, <<>>)
                /\ refused' = IF pending = NoPatch THEN refused
                              ELSE refused \cup {[req |-> req, plan |-> pending.id,
                                                  gate |-> gate, code |-> code]}
                /\ UNCHANGED <<inflight, reached, calls>>
           ELSE LET run == RunFrom(pending.actions, 1, <<>>)
                IN  /\ UNCHANGED refused
                    /\ reached' = reached \cup {[req |-> req, guild |-> g, plan |-> pending.id]}
                    /\ calls' = calls \cup CallsOf(req, pending, allowDeletes, 1, run)
                    /\ IF run.awaiting
                       THEN /\ inflight' = inflight \cup
                                   {[pc |-> "apply", req |-> req, guild |-> g,
                                     pending |-> pending, allow |-> allowDeletes,
                                     i |-> run.i, results |-> run.results]}
                            /\ UNCHANGED <<pendingPatches, lastReply>>
                       ELSE /\ ApplyDone(req, g, run.results)
                            /\ UNCHANGED inflight
    /\ UNCHANGED <<now, ticks, stored>>
    /\ UNCHANGED pvars

\* variant: the loop resolves the script again with the table opsMap holds
\* when the awaited call settles
BatchActions_Reresolved(c) ==
    ParseWith(opsMap, ScriptList[(CHOOSE p \in stored : p.id = c.pending.id).script]).actions

\* variant: the loop ends after the awaited action when the slot no longer
\* holds the plan being applied
BatchActions_StopWhenReplaced(c) ==
    IF pendingPatches[c.guild] = c.pending THEN c.pending.actions
    ELSE SubSeq(c.pending.actions, 1, c.i)

\* the array a suspended applyActions iterates over: the actions of the
\* object apply read from the map before its gates
BatchActions(c) == c.pending.actions

\* the external API settles the handler call an apply is awaiting; the loop
\* of applyActions resumes up to its next await or to the end
ApplySettle(c, o) ==
    /\ c \in inflight
    /\ c.pc = "apply"
    /\ LET acts == BatchActions(c)
           run  == SettleFrom(acts, c.i, c.results, o)
       IN  /\ calls' = calls \cup
                  CallsOf(c.req, [c.pending EXCEPT !.actions = acts], c.allow, c.i + 1, run)
           /\ IF run.awaiting
              THEN /\ inflight' = (inflight \ {c}) \cup
                          {[c EXCEPT !.i = run.i, !.results = run.results]}
                   /\ UNCHANGED <<pendingPatches, lastReply>>
              ELSE /\ ApplyDone(c.req, c.guild, run.results)
                   /\ inflight' = inflight \ {c}
    /\ UNCHANGED <<now, nreq, ticks, stored, refused, reached>>
    /\ UNCHANGED pvars

\* time passes
Tick(d) ==
    /\ ticks < MaxTicks
    /\ ticks' = ticks + 1
    /\ now' = now + d
    /\ UNCHANGED <<pendingPatches, inflight, lastReply, nreq, stored, refused, reached, calls>>
    /\ UNCHANGED pvars

Next ==
    \/ \E g \in Guilds : Cancel(g)
    \/ \E g \in Guilds : PlanNoAttachment(g)
    \/ \E g \in Guilds, t \in Scripts, code \in CodePool : Plan(g, t, code)
    \/ \E g \in Guilds, s \in SubmittedCodes, f \in BOOLEAN : Apply(g, s, f)
    \/ \E c \in inflight, o \in ApiOutcomes : ApplySettle(c, o)
    \/ \E d \in TickSteps : Tick(d)

Spec == Init /\ [][Next]_vars

(***************************************************************************)
(* Hot reload of the registry: ops.map is edited on disk, `!opsreload`     *)
(* loads it into opsMap, plans are made before and after.                  *)
(***************************************************************************)
\* somebody saves another content of ops.map
OpsEdit(v) ==
    /\ v /= opsFile
    /\ env' = [env EXCEPT !.opsFile = v]
    /\ UNCHANGED botvars

\* `!opsreload`: opsMap = loadOpsMap(OPS_PATH), read and assigned without
\* suspending; the reply is awaited afterwards
OpsReload ==
    /\ env' = [env EXCEPT !.opsMap = opsFile, !.opsLoaded = opsFile]
    /\ UNCHANGED botvars

NextReload ==
    \/ \E v \in DOMAIN OpsFiles : OpsEdit(v)
    \/ OpsReload
    \/ \E g \in Guilds, t \in Scripts : Plan(g, t, CODE_1)

SpecReload == Init /\ [][NextReload]_vars

\* plans made before and after a reload are applied before and after it,
\* also while an apply is suspended
NextHot ==
    \/ \E v \in DOMAIN OpsFiles : OpsEdit(v)
    \/ OpsReload
    \/ \E g \in Guilds, t \in ScriptsHot : Plan(g, t, CODE_1)
    \/ \E g \in Guilds, f \in BOOLEAN : Apply(g, CODE_1, f)
    \/ \E c \in inflight, o \in ApiOutcomes : ApplySettle(c, o)

SpecHot == Init /\ [][NextHot]_vars

(***************************************************************************)
(* Progress of an apply.  The continuation of an awaited handler call runs *)
(* once the external API has settled the call; that every call is settled  *)
(* is the assumption under which the commands are explored here: plans of  *)
(* a script that awaits the API twice and of one that awaits it once,      *)
(* applies with the right code, cancels.                                   *)
(***************************************************************************)
\* the API settles the call that apply req is awaiting
SettleOf(req) ==
    \E c \in inflight, o \in ApiOutcomes : c.req = req /\ ApplySettle(c, o)

NextLive ==
    \/ \E g \in Guilds : Cancel(g)
    \/ \E g \in Guilds, t \in {ScriptRename, ScriptDelete} : Plan(g, t, CODE_1)
    \/ \E g \in Guilds : Apply(g, CODE_1, TRUE)
    \/ \E c \in inflight, o \in ApiOutcomes : ApplySettle(c, o)

SpecLive ==
    /\ Init
    /\ [][NextLive]_vars
    /\ \A req \in 1..MaxRequests : WF_vars(SettleOf(req))

(***************************************************************************)
(* Plans of every size: a script of exactly PATCH_MAX_ACTIONS operations,  *)
(* one with no operation line and one with an operation too many, then     *)
(* applied or cancelled.                                                   *)
(***************************************************************************)
NextSized ==
    \/ \E g \in Guilds : Cancel(g)
    \/ \E g \in Guilds, t \in ScriptsSized, code \in CodePool : Plan(g, t, code)
    \/ \E g \in Guilds, s \in CodePool, f \in BOOLEAN : Apply(g, s, f)
    \/ \E c \in inflight, o \in ApiOutcomes : ApplySettle(c, o)

SpecSized == Init /\ [][NextSized]_vars

(***************************************************************************)
(* The same commands sent by the members of two guilds.  The scripts are   *)
(* one that parses without error (a no-op, a delete-class action awaited   *)
(* from the API and a handler nobody implements) and one with an unknown   *)
(* operation; every plan draws the same confirm code, so that a code valid *)
(* in one guild is also submitted in the other.                            *)
(***************************************************************************)
ScriptsTwo == {ScriptDelete, ScriptBogus}

NextTwo ==
    \/ \E g \in GuildsTwo : Cancel(g)
    \/ \E g \in GuildsTwo : PlanNoAttachment(g)
    \/ \E g \in GuildsTwo, t \in ScriptsTwo : Plan(g, t, CODE_1)
    \/ \E g \in GuildsTwo, s \in {CODE_1, CODE_2}, f \in BOOLEAN : Apply(g, s, f)
    \/ \E c \in inflight, o \in ApiOutcomes : ApplySettle(c, o)
    \/ \E d \in TickSteps : Tick(d)

SpecTwo == Init /\ [][NextTwo]_vars

(***************************************************************************)
(* Exploration of the pure functions parsePatchScript and resolveOp.  A    *)
(* script is built line by line from a pool of lines, each operation line  *)
(* given by its verb, its resource type and its argument tokens, and is    *)
(* parsed twice against the loaded registry: with every operation line     *)
(* written `verb type args` and with every one written `verb:type args`.   *)
(***************************************************************************)
W_topic == <<"t", "o", "p", "i", "c">>

OpLine(verb, type, rest) == [kind |-> "op", verb |-> verb, type |-> type, rest |-> rest]

RawLine(text) == [kind |-> "raw", text |-> text]

LinePool ==
    { \* a positional and a named argument
      OpLine(W_set, W_channel, <<ID_A, W_name \o <<"=">> \o W_Lounge>>),
      \* a named argument whose value is written in double quotes
      OpLine(W_set, W_channel, <<ID_A, W_name \o <<"=", DQ>> \o W_Lounge \o <<DQ>>>>),
      \* the first parameter given by name and the second by position, on an
      \* operation the wildcard entry resolves
      OpLine(W_set, W_role, <<W_id \o <<"=">> \o ID_B, W_Mods>>),
      \* a surplus positional value and a named key the schema does not have
      OpLine(W_del, W_channel, <<ID_A, ID_B, W_topic \o <<"=">> \o W_Mods>>),
      \* no argument at all, for an operation without and with parameters
      OpLine(W_keep, W_role, <<>>),
      OpLine(W_set, W_channel, <<>>),
      \* an operation the registry does not have
      OpLine(W_bogus, W_thing, <<ID_A>>),
      \* a comment, a blank line, a line of one token
      RawLine(<<"#", " ", "r">>),
      RawLine(<<>>),
      RawLine(W_keep) }

\* bounds of the exploration: lines of a script, largest maxActions
MaxLines == 3
MaxCap == 2

\* the text of a line in the two-token or in the colon form
RenderLine(l, colon) ==
    IF l.kind = "raw" THEN l.text
    ELSE Join(<<l.verb \o (IF colon THEN <<":">> ELSE <<SP>>) \o l.type>> \o l.rest, <<SP>>)

RenderScript(lines, colon) ==
    Join([k \in 1..Len(lines) |-> RenderLine(lines[k], colon)], <<NL>>)

ResolveVerbs == {W_set, W_del, W_keep, W_zap, W_bogus}

ResolveTypes == {W_channel, W_role, W_thing, W_star}

\* one more line is written to the script
AddLine(l) ==
    /\ pout = NoOut
    /\ Len(pin) < MaxLines
    /\ env' = [env EXCEPT !.pin = Append(pin, l)]
    /\ UNCHANGED botvars

\* parsePatchScript(text, opsMap, { maxActions }) on both forms of the script
RunParse(maxActions) ==
    /\ pout = NoOut
    /\ pin /= <<>>
    /\ env' = [env EXCEPT !.pout =
                  [kind  |-> "parse",
                   max   |-> maxActions,
                   two   |-> parsePatchScript(RenderScript(pin, FALSE), OpsMapLoaded, maxActions),
                   colon |-> parsePatchScript(RenderScript(pin, TRUE), OpsMapLoaded, maxActions)]]
    /\ UNCHANGED botvars

\* resolveOp(opsMap, verb, type)
RunResolve(verb, type) ==
    /\ pout = NoOut
    /\ pin = <<>>
    /\ env' = [env EXCEPT !.pout = [kind |-> "resolve", verb |-> verb, type |-> type,
                                    op |-> resolveOp(OpsMapLoaded, verb, type)]]
    /\ UNCHANGED botvars

\* lines of a registry file: a complete entry, and entries with one part
\* left out
RegistryLinePool ==
    { W_set \o <<":">> \o W_channel \o <<" ", "=", " ">> \o H_noop,
      \* no equals sign, nothing left of it, nothing right of it
      W_set \o <<":">> \o W_channel,
      <<"=", " ">> \o H_noop,
      W_set \o <<":">> \o W_channel \o <<" ", "=">>,
      \* the left side without the colon, without the verb, without the type
      W_set \o <<" ", "=", " ">> \o H_noop,
      <<":">> \o W_channel \o <<" ", "=", " ">> \o H_noop,
      W_set \o <<":", " ", "=", " ">> \o H_noop,
      \* the right side without the handler id
      W_set \o <<":">> \o W_channel \o <<" ", "=", " ", ":">> \o W_id }

\* loadOpsMap on a registry file of one line
RunLoad(l) ==
    /\ pout = NoOut
    /\ pin = <<>>
    /\ env' = [env EXCEPT !.pout = [kind |-> "load", text |-> l, map |-> loadOpsMap(l)]]
    /\ UNCHANGED botvars

\* buildPlanSummary on the actions of the script, parsed with a limit the
\* script does not reach
RunSummary ==
    /\ pout = NoOut
    /\ pin /= <<>>
    /\ LET actions == parsePatchScript(RenderScript(pin, FALSE), OpsMapLoaded, Len(pin)).actions
       IN  env' = [env EXCEPT !.pout = [kind |-> "summary", actions |-> actions,
                                        text |-> buildPlanSummary(actions)]]
    /\ UNCHANGED botvars

NextParse ==
    \/ \E l \in LinePool : AddLine(l)
    \/ \E m \in 1..MaxCap : RunParse(m)
    \/ \E v \in ResolveVerbs, t \in ResolveTypes : RunResolve(v, t)
    \/ \E l \in RegistryLinePool : RunLoad(l)
    \/ RunSummary

SpecParse == Init /\ [][NextParse]_vars

(***************************************************************************)
(* Executor exploration: applyActions on the actions of one script, with   *)
(* every handler of HANDLERS, statement by statement.  The script is       *)
(* parsed against a registry that names every handler, a handler nobody    *)
(* implements and the names HANDLERS inherits from Object.prototype.  The  *)
(* external API is the environment: it answers a lookup with a target      *)
(* that has the method to be called ("full"), with one that lacks it       *)
(* ("bare") or with none, and a mutating call by success or rejection.     *)
(***************************************************************************)
W_rename   == <<"r", "e", "n", "a", "m", "e">>
W_move     == <<"m", "o", "v", "e">>
W_slow     == <<"s", "l", "o", "w">>
W_nsfw     == <<"n", "s", "f", "w">>
W_new      == <<"n", "e", "w">>
W_clear    == <<"c", "l", "e", "a", "r">>
W_perm     == <<"p", "e", "r", "m">>
W_category == <<"c", "a", "t", "e", "g", "o", "r", "y">>
W_str      == <<"s", "t", "r">>
W_val      == <<"v", "a", "l">>
W_ctor     == <<"c", "t", "o", "r">>
W_own      == <<"o", "w", "n">>
W_text     == <<"t", "e", "x", "t">>
W_blob     == <<"b", "l", "o", "b">>
W_on       == <<"o", "n">>
W_maybe    == <<"m", "a", "y", "b", "e">>
W_five     == <<"5">>
W_minus    == <<"-", "5">>
W_x        == <<"x">>
W_View     == <<"V", "i", "e", "w", "C", "h", "a", "n", "n", "e", "l">>
W_Send     == <<"S", "e", "n", "d", "M", "e", "s", "s", "a", "g", "e", "s">>
W_Fly      == <<"F", "l", "y">>

OpsEntry(verb, type, handler, params) ==
    verb \o <<":">> \o type \o <<" ", "=", " ">> \o handler
         \o (IF params = <<>> THEN <<>> ELSE <<":">> \o Join(params, <<",">>))

ExecOpsText ==
    Join(<< OpsEntry(W_rename, W_channel, H_channelRename, <<W_id, W_name>>),
            OpsEntry(W_move, W_channel, H_channelMove, <<W_id, W_parent>>),
            OpsEntry(W_topic, W_channel, H_channelTopic, <<W_id, W_topic>>),
            OpsEntry(W_slow, W_channel, H_channelSlowmode, <<W_id, W_seconds>>),
            OpsEntry(W_nsfw, W_channel, H_channelNsfw, <<W_id, W_enabled>>),
            OpsEntry(W_new, W_channel, H_channelCreate, <<W_name, W_ctype, W_parent>>),
            OpsEntry(W_del, W_channel, H_channelDelete, <<W_id>>),
            OpsEntry(W_new, W_category, H_categoryCreate, <<W_name>>),
            OpsEntry(W_rename, W_role, H_roleRename, <<W_id, W_name>>),
            OpsEntry(W_new, W_role, H_roleCreate, <<W_name>>),
            OpsEntry(W_del, W_role, H_roleDelete, <<W_id>>),
            OpsEntry(W_set, W_perm, H_permSet, <<W_channel, W_role, W_allow, W_deny>>),
            OpsEntry(W_clear, W_perm, H_permRemove, <<W_channel, W_role>>),
            OpsEntry(W_keep, W_star, H_noop, <<>>),
            OpsEntry(W_zap, W_thing, H_ghost, <<>>),
            OpsEntry(W_str, W_thing, H_toString, <<>>),
            OpsEntry(W_val, W_thing, H_valueOf, <<>>),
            OpsEntry(W_ctor, W_thing, H_constructor, <<>>),
            OpsEntry(W_own, W_thing, H_hasOwnProperty, <<>>)
         >>, <<NL>>)

ExecOpsMap == loadOpsMap(ExecOpsText)

\* a script line from its tokens
Words(tokens) == Join(tokens, <<SP>>)

\* first lines of the scripts: every handler with arguments that pass and
\* with arguments that fail each of its validations
ExecLinePool ==
    { Words(<<W_rename, W_channel, ID_A, W_Lounge>>),
      Words(<<W_rename, W_channel, ID_BAD, W_Lounge>>),
      Words(<<W_rename, W_channel, ID_A>>),
      Words(<<W_move, W_channel, ID_A, ID_B>>),
      Words(<<W_move, W_channel, ID_A, W_none>>),
      Words(<<W_move, W_channel, ID_BAD, ID_B>>),
      Words(<<W_move, W_channel, ID_A, ID_BAD>>),
      Words(<<W_topic, W_channel, ID_A, W_Mods>>),
      Words(<<W_topic, W_channel, ID_BAD, W_Mods>>),
      Words(<<W_slow, W_channel, ID_A, W_five>>),
      Words(<<W_slow, W_channel, ID_A, W_x>>),
      Words(<<W_slow, W_channel, ID_A, W_minus>>),
      Words(<<W_slow, W_channel, ID_BAD, W_five>>),
      Words(<<W_nsfw, W_channel, ID_A, W_on>>),
      Words(<<W_nsfw, W_channel, ID_A, W_maybe>>),
      Words(<<W_nsfw, W_channel, ID_BAD, W_on>>),
      Words(<<W_new, W_channel, W_Lounge, W_text>>),
      Words(<<W_new, W_channel, W_Lounge, W_text, ID_B>>),
      Words(<<W_new, W_channel>>),
      Words(<<W_new, W_channel, W_Lounge, W_blob>>),
      Words(<<W_new, W_channel, W_Lounge, W_text, ID_BAD>>),
      Words(<<W_del, W_channel, ID_A>>),
      Words(<<W_del, W_channel, ID_BAD>>),
      Words(<<W_new, W_category, W_Lounge>>),
      Words(<<W_new, W_category>>),
      Words(<<W_rename, W_role, ID_A, W_Mods>>),
      Words(<<W_rename, W_role, ID_BAD, W_Mods>>),
      Words(<<W_rename, W_role, ID_A>>),
      Words(<<W_new, W_role, W_Mods>>),
      Words(<<W_new, W_role>>),
      Words(<<W_del, W_role, ID_A>>),
      Words(<<W_del, W_role, ID_BAD>>),
      Words(<<W_set, W_perm, ID_A, ID_B, W_View \o <<",">> \o W_Send>>),
      Words(<<W_set, W_perm, ID_BAD, ID_B, W_View>>),
      Words(<<W_set, W_perm, ID_A, ID_BAD, W_View>>),
      Words(<<W_set, W_perm, ID_A, ID_B, W_Fly>>),
      Words(<<W_set, W_perm, ID_A, ID_B, W_View, W_Fly>>),
      Words(<<W_clear, W_perm, ID_A, ID_B>>),
      Words(<<W_clear, W_perm, ID_BAD, ID_B>>),
      Words(<<W_clear, W_perm, ID_A, ID_BAD>>),
      Words(<<W_keep, W_role, ID_A>>),
      Words(<<W_zap, W_thing>>),
      Words(<<W_str, W_thing>>),
      Words(<<W_val, W_thing>>),
      Words(<<W_ctor, W_thing>>),
      Words(<<W_own, W_thing>>) }

\* the lines that can follow the first one
FollowPool ==
    { Words(<<W_keep, W_role, ID_A>>),
      Words(<<W_rename, W_channel, ID_B, W_Lounge>>),
      Words(<<W_zap, W_thing>>) }

\* bound of the exploration: lines of a script
MaxExecLen == 2

\* what guild.channels.cache and guild.roles.cache can hold when the call
\* starts: nothing, or the target ID_A with or without the optional methods
ExecCaches == { NoNamed, MapSet(NoNamed, ID_A, "full"), MapSet(NoNamed, ID_A, "bare") }

LookupOutcomes == {"full", "bare", "null"}

MutateOutcomes == {"ok", "rejected"}

\* results.push(r); the loop goes on with the next action
ExecPush(st, r) ==
    [st EXCEPT !.i = @ + 1, !.pos = 0, !.target = "", !.results = Append(@, r), !.pc = "run"]

\* fn(guild, a.args, ctx) is called for the action at st.i
ExecInvoke(st) == [st EXCEPT !.invoked = Append(@, st.i)]

\* applyActions from (i, pos) up to the next await of the external API or
\* to the end of the list; pos = 0 is the lookup of HANDLERS[a.handler],
\* pos = k the k-th statement of the handler
RECURSIVE ExecRun(_)
ExecRun(st) ==
    IF st.i > Len(st.actions) THEN [st EXCEPT !.pc = "done"]
    ELSE
    LET a == st.actions[st.i]
    IN  IF st.pos = 0
        THEN CASE FnOf(a.handler) = "undefined" ->
                    ExecRun(ExecPush(st, ResultUnknown(a)))
               [] FnOf(a.handler) = "returns" ->
                    ExecRun(ExecPush(ExecInvoke(st), ResultInherited(a)))
               [] FnOf(a.handler) = "throws" ->
                    ExecRun(ExecPush(ExecInvoke(st), ResultThrown(a, "TypeError")))
               [] OTHER ->
                    ExecRun([ExecInvoke(st) EXCEPT !.pos = 1])
        ELSE
        LET steps == HandlerSteps(a.handler, a.args)
        IN  IF st.pos > Len(steps) THEN ExecRun(ExecPush(st, ResultOk(a)))
            ELSE
            LET s == steps[st.pos]
            IN  CASE s.kind = "check" ->
                       IF s.error /= "" THEN ExecRun(ExecPush(st, ResultThrown(a, s.error)))
                       ELSE ExecRun([st EXCEPT !.pos = @ + 1])
                  [] s.kind = "lookup" ->
                       IF s.id \in DOMAIN st.cache
                       THEN ExecRun([st EXCEPT !.target = st.cache[s.id], !.pos = @ + 1])
                       ELSE [st EXCEPT !.log = Append(@, [idx |-> st.i, call |-> "lookup"]),
                                       !.pc = "wait"]
                  [] s.kind = "support" ->
                       IF st.target = "bare" THEN ExecRun(ExecPush(st, ResultThrown(a, s.error)))
                       ELSE ExecRun([st EXCEPT !.pos = @ + 1])
                  [] OTHER ->
                       [st EXCEPT !.log = Append(@, [idx |-> st.i, call |-> "mutate"]),
                                  !.pc = "wait"]

\* one more line is written to the script
ExecAdd(l) ==
    /\ ex.pc = "edit"
    /\ Len(ex.script) < MaxExecLen
    /\ l \in (IF ex.script = <<>> THEN ExecLinePool ELSE FollowPool)
    /\ env' = [env EXCEPT !.ex.script = Append(@, l)]
    /\ UNCHANGED botvars

\* applyActions(guild, pending.actions, ctx) on the parsed script
ExecStart(cache) ==
    /\ ex.pc = "edit"
    /\ ex.script /= <<>>
    /\ LET res == parsePatchScript(Join(ex.script, <<NL>>), ExecOpsMap, Len(ex.script))
       IN  /\ res.errors = <<>>
           /\ env' = [env EXCEPT !.ex = ExecRun([ex EXCEPT !.actions = res.actions,
                                                           !.cache = cache,
                                                           !.i = 1,
                                                           !.pc = "run"])]
    /\ UNCHANGED botvars

\* the external API settles the call the handler awaits
ExecSettle(o) ==
    /\ ex.pc = "wait"
    /\ LET a == ex.actions[ex.i]
           s == HandlerSteps(a.handler, a.args)[ex.pos]
       IN  IF s.kind = "lookup"
           THEN /\ o \in LookupOutcomes
                /\ env' = [env EXCEPT !.ex =
                       ExecRun(IF o = "null" THEN ExecPush(ex, ResultThrown(a, s.error))
                               ELSE [ex EXCEPT !.target = o,
                                               !.pos = @ + 1,
                                               !.cache = IF IsSnowflake(s.id)
                                                         THEN MapSet(@, s.id, o) ELSE @,
                                               !.pc = "run"])]
           ELSE /\ o \in MutateOutcomes
                /\ env' = [env EXCEPT !.ex =
                       ExecRun(IF o = "ok" THEN [ex EXCEPT !.pos = @ + 1, !.pc = "run"]
                               ELSE ExecPush(ex, ResultThrown(a, "rejected")))]
    /\ UNCHANGED botvars

NextExec ==
    \/ \E l \in ExecLinePool \cup FollowPool : ExecAdd(l)
    \/ \E c \in ExecCaches : ExecStart(c)
    \/ \E o \in LookupOutcomes \cup MutateOutcomes : ExecSettle(o)

SpecExec == Init /\ [][NextExec]_vars

(***************************************************************************)
(* Suggestion votes: the suggest branch of client.on('interactionCreate'). *)
(* The two sets of a suggestion are changed before the first await of the  *)
(* handler, so a press is one step.                                        *)
(***************************************************************************)
\* bound of the exploration: presses of a vote button
MaxPresses == 3

\* variant: the opposite vote is left in place
PressVote_KeepOpposite(sug, user, action) ==
    IF action = "up"
    THEN IF user \in sug.up THEN [sug EXCEPT !.up = @ \ {user}]
         ELSE [sug EXCEPT !.up = @ \cup {user}]
    ELSE IF user \in sug.down THEN [sug EXCEPT !.down = @ \ {user}]
         ELSE [sug EXCEPT !.down = @ \cup {user}]

\* if (action === 'up') { ... } else if (action === 'down') { ... }
PressVote(sug, user, action) ==
    IF action = "up"
    THEN IF user \in sug.up THEN [sug EXCEPT !.up = @ \ {user}]
         ELSE [sug EXCEPT !.down = @ \ {user}, !.up = @ \cup {user}]
    ELSE IF action = "down"
    THEN IF user \in sug.down THEN [sug EXCEPT !.down = @ \ {user}]
         ELSE [sug EXCEPT !.up = @ \ {user}, !.down = @ \cup {user}]
    ELSE sug

\* history only: the vote the user holds on a suggestion
HeldBy(sug, user) ==
    IF sug = NoSuggestion THEN "expired"
    ELSE IF user \in sug.up /\ user \in sug.down THEN "both"
    ELSE IF user \in sug.up THEN "up"
    ELSE IF user \in sug.down THEN "down"
    ELSE "none"

\* registerCommand('suggest'): interactive.suggestions.set(sugId, sug)
Suggest(id) ==
    /\ suggestions[id] = NoSuggestion
    /\ env' = [env EXCEPT !.votes.suggestions[id] = [up |-> {}, down |-> {}]]
    /\ UNCHANGED botvars

\* cleanupInteractiveStore: interactive.suggestions.delete(id)
ExpireSuggestion(id) ==
    /\ suggestions[id] /= NoSuggestion
    /\ env' = [env EXCEPT !.votes.suggestions[id] = NoSuggestion]
    /\ UNCHANGED botvars

\* a user presses the button suggest:<id>:<action>
Press(user, id, action) ==
    /\ presses < MaxPresses
    /\ env' = [env EXCEPT
                  !.votes.suggestions[id] =
                      IF @ = NoSuggestion THEN @ ELSE PressVote(@, user, action),
                  !.votes.presses = @ + 1,
                  !.votes.lastPress = [user |-> user, id |-> id, action |-> action,
                                       held |-> HeldBy(suggestions[id], user)]]
    /\ UNCHANGED botvars

NextVotes ==
    \/ \E id \in SuggestionIds : Suggest(id)
    \/ \E id \in SuggestionIds : ExpireSuggestion(id)
    \/ \E u \in Users, id \in SuggestionIds, a \in {"up", "down"} : Press(u, id, a)

SpecVotes == Init /\ [][NextVotes]_vars

(***************************************************************************)
(* embedKit: splitDescription and the text path of buildEmbedsFromSpec     *)
(* (a specification `title | description` without options or code block). *)
(***************************************************************************)
\* LIMITS of ui.js: the longest description and title of one embed
LIMITS_description == 4096

LIMITS_title == 256

\* clampStr of ui.js: a text within the limit is kept as it is
clampStr(str, max) == IF Len(str) <= max THEN str ELSE SubSeq(str, 1, max)

\* remaining.lastIndexOf('\n', from): the largest 0-based index <= from
LastIndexOf(str, c, from) ==
    LET found == {k \in 0..from : k + 1 <= Len(str) /\ str[k + 1] = c}
    IN  IF found = {} THEN -1 ELSE CHOOSE k \in found : \A j \in found : j <= k

\* .replace(/^\n+/, '')
RECURSIVE StripNewlines(_)
StripNewlines(str) ==
    IF str /= <<>> /\ Head(str) = NL THEN StripNewlines(Tail(str)) ELSE str

\* Math.floor(limit * 0.6)
SixTenths(limit) == (limit * 6) \div 10

\* variant: a chunk ends after the newline that was found
CutAt_AfterNewline(remaining, limit) ==
    LET idx == LastIndexOf(remaining, NL, limit)
    IN  IF idx < SixTenths(limit) THEN limit ELSE idx + 1

\* let idx = remaining.lastIndexOf('\n', limit); if (idx < ...) idx = limit
CutAt(remaining, limit) ==
    LET idx == LastIndexOf(remaining, NL, limit)
    IN  IF idx < SixTenths(limit) THEN limit ELSE idx

\* the while loop of splitDescription and the push of the rest
RECURSIVE SplitFrom(_, _, _)
SplitFrom(remaining, limit, chunks) ==
    IF Len(remaining) > limit
    THEN LET idx == CutAt(remaining, limit)
         IN  SplitFrom(StripNewlines(Slice(remaining, idx, Len(remaining))), limit,
                       Append(chunks, Slice(remaining, 0, idx)))
    ELSE IF remaining /= <<>> THEN Append(chunks, remaining)
    ELSE chunks

splitDescription(description, limit) ==
    IF Len(description) <= limit THEN <<description>>
    ELSE SplitFrom(description, limit, <<>>)

\* the loop of parseEmbedBody: 0-based index of the first pipe that no
\* backslash escapes, -1 when there is none
RECURSIVE PipeFrom(_, _, _)
PipeFrom(specText, i, escaped) ==
    IF i >= Len(specText) THEN -1
    ELSE IF escaped THEN PipeFrom(specText, i + 1, FALSE)
    ELSE IF specText[i + 1] = "\\" THEN PipeFrom(specText, i + 1, TRUE)
    ELSE IF specText[i + 1] = "|" THEN i
    ELSE PipeFrom(specText, i + 1, FALSE)

\* .replace(/\\\|/g, '|')
RECURSIVE UnescapePipes(_)
UnescapePipes(str) ==
    IF \A k \in 1..Len(str) : str[k] /= "\\" THEN str
    ELSE IF Len(str) >= 2 /\ str[1] = "\\" /\ str[2] = "|"
    THEN <<"|">> \o UnescapePipes(SubSeq(str, 3, Len(str)))
    ELSE <<Head(str)>> \o UnescapePipes(Tail(str))

\* parseEmbedBody(specText).data for a text that is no code block
parseEmbedBody(specText) ==
    LET pipeIdx == PipeFrom(specText, 0, FALSE)
    IN  IF pipeIdx = -1 THEN [title |-> <<>>, description |-> Trim(specText)]
        ELSE [title       |-> Trim(UnescapePipes(Slice(specText, 0, pipeIdx))),
              description |-> Trim(UnescapePipes(Slice(specText, pipeIdx + 1, Len(specText))))]

\* the title and the description of the items of buildEmbedsFromSpec(rawSpec)
\* for a rawSpec without the options separator; a field an item does not
\* get is the empty text
buildEmbedsFromSpec(rawSpec) ==
    LET src    == parseEmbedBody(Trim(rawSpec))
        title  == clampStr(src.title, LIMITS_title)
        chunks == splitDescription(src.description, LIMITS_description)
        total  == Len(chunks)
    IN  [idx \in 1..total |->
            [title       |-> IF title = <<>> THEN <<>>
                             ELSE IF total > 1
                             THEN clampStr(title \o <<" ", "(">> \o NumberText(idx) \o <<"/">>
                                                 \o NumberText(total) \o <<")">>,
                                           LIMITS_title)
                             ELSE title,
             description |-> clampStr(chunks[idx], LIMITS_description)]]

\* bounds of the exploration: characters of a description, largest limit
MaxText == 5
MaxLimit == 3

DescriptionChars == {"a", "b", NL}

\* lengths of the descriptions given to buildEmbedsFromSpec
EmbedLengths == {0, 1, 4096, 4097, 9000}

W_Titre == <<"T", "i", "t", "r", "e">>

\* one more character is written to the description
AddChar(c) ==
    /\ pout = NoOut
    /\ Len(desc) < MaxText
    /\ env' = [env EXCEPT !.desc = Append(@, c)]
    /\ UNCHANGED botvars

\* splitDescription(text, limit)
RunSplit(limit) ==
    /\ pout = NoOut
    /\ env' = [env EXCEPT !.pout = [kind |-> "split", text |-> desc, limit |-> limit,
                                    chunks |-> splitDescription(desc, limit)]]
    /\ UNCHANGED botvars

\* splitDescription('a'.repeat(n), 4096) and
\* buildEmbedsFromSpec(`Titre | ${'a'.repeat(n)}`)
RunEmbeds(n) ==
    /\ pout = NoOut
    /\ desc = <<>>
    /\ env' = [env EXCEPT !.pout =
                  [kind   |-> "embeds",
                   n      |-> n,
                   chunks |-> splitDescription(Rep("a", n), LIMITS_description),
                   embeds |-> buildEmbedsFromSpec(W_Titre \o <<" ", "|", " ">> \o Rep("a", n))]]
    /\ UNCHANGED botvars

NextEmbed ==
    \/ \E c \in DescriptionChars : AddChar(c)
    \/ \E l \in 1..MaxLimit : RunSplit(l)
    \/ \E n \in EmbedLengths : RunEmbeds(n)

SpecEmbed == Init /\ [][NextEmbed]_vars

(***************************************************************************)
(* Vocabulary of the properties, stated from the words of the              *)
(* specification and not from the operators above.                         *)
(***************************************************************************)
DeleteClass == {H_channelDelete, H_roleDelete}

ContainsDeleteClass(actions) == \E k \in 1..Len(actions) : actions[k].handler \in DeleteClass

Planned(g) == pendingPatches[g] /= NoPatch

\* the code the command compares with the stored one
CodeOf(submitted) == ToUpperCase(submitted)

Unexpired(g) == now - pendingPatches[g].createdAt <= PATCH_CONFIRM_TTL_MS

\* the apply of request nreq' was answered in this step with the given title
Answered(sub, title) ==
    /\ lastReply'.req = nreq'
    /\ lastReply'.sub = sub
    /\ lastReply'.title = title

NothingRuns == calls' = calls /\ reached' = reached /\ inflight' = inflight

\* the apply of this step passed the gates: it is recorded as executing
Executes == nreq' \in {a.req : a \in reached'}

\* the title an apply with this code would be answered with at a gate
GateNow(g, code, allow) == ApplyGate(pendingPatches[g], code, allow)

GateErrors == {"Erreur", "Expire", "Code invalide", "Suppression bloquee"}

(***************************************************************************)
(* C1                                                                      *)
(***************************************************************************)
\* one of the four gates fails for an apply with these arguments
SomeGateFails(g, submitted, flag) ==
    \/ ~Planned(g)
    \/ ~Unexpired(g)
    \/ CodeOf(submitted) /= pendingPatches[g].code
    \/ (ContainsDeleteClass(pendingPatches[g].actions) /\ ~flag)

C1_Step ==
    \A g \in Guilds, s \in SubmittedCodes, f \in BOOLEAN :
        (Apply(g, s, f) /\ SomeGateFails(g, s, f)) =>
            /\ NothingRuns
            /\ lastReply'.req = nreq'
            /\ lastReply'.title \in GateErrors

\* C1: an apply attempt that fails any of the four gates (no pending patch,
\* expired, invalid code, destructive blocked) calls no handler: the calls,
\* the executing applies and the suspended applies are what they were, and
\* the attempt is answered with a gate error.
C1_GateFailureRunsNothing == [][C1_Step]_vars

\* the last command was an apply refused at the code gate of a stored patch
C1_Witness ==
    /\ lastReply.req = nreq
    /\ lastReply.sub = "apply"
    /\ lastReply.title = "Code invalide"
    /\ \E g \in Guilds : Planned(g) /\ Len(pendingPatches[g].actions) > 0
    /\ calls = {}

(***************************************************************************)
(* C2                                                                      *)
(***************************************************************************)
\* C2: a PendingPatch is single-use: at most one apply attempt reaches
\* execution with the action list of a given plan, so none of its actions is
\* called twice.
C2_SingleUse ==
    /\ \A a, b \in reached : a.plan = b.plan => a.req = b.req
    /\ \A c, d \in calls : (c.plan = d.plan /\ c.idx = d.idx) => c.req = d.req

(***************************************************************************)
(* C3                                                                      *)
(***************************************************************************)
\* the suspended apply c completes in this step
Completes(c) == \A d \in inflight' : d.req /= c.req

\* C3: plan, apply and cancel on a target are serialized: while an apply is
\* between its gates and its delete, the slot of its target is not changed
\* by a plan or a cancel, and the PendingPatch an apply deletes on completion
\* is the one whose actions it executed.
C3_Step ==
    \A c \in inflight :
        /\ Completes(c) =>
              (Planned(c.guild) => pendingPatches[c.guild].id = c.pending.id)
        /\ ~Completes(c) => pendingPatches'[c.guild] = pendingPatches[c.guild]

C3_Serialized == [][C3_Step]_vars

(***************************************************************************)
(* C4                                                                      *)
(***************************************************************************)
\* an apply with the right code on an unexpired plan holding a delete-class
\* action: blocked and without effect when deletes are not allowed (an apply
\* that allows them would pass the gates of the state it leaves), executing
\* when they are
C4_Step ==
    \A g \in Guilds, s \in SubmittedCodes, f \in BOOLEAN :
        ( /\ Apply(g, s, f)
          /\ Planned(g)
          /\ ContainsDeleteClass(pendingPatches[g].actions)
          /\ CodeOf(s) = pendingPatches[g].code
          /\ Unexpired(g) ) =>
            IF ~f
            THEN /\ Answered("apply", "Suppression bloquee")
                 /\ NothingRuns
                 /\ pendingPatches' = pendingPatches
                 /\ GateNow(g, CodeOf(s), TRUE)' = ""
            ELSE Executes

\* C4: destructive gating.  With a delete-class handler in the pending plan,
\* an apply with the correct code before the TTL and without allowDestructive
\* is answered "destructive actions blocked", runs nothing and keeps the
\* plan, and an apply with allowDestructive then proceeds to execution; no
\* delete-class handler is ever called by an apply that did not allow it.
C4_DestructiveGating ==
    /\ [][C4_Step]_vars
    /\ [](\A c \in calls : c.handler \in DeleteClass => c.allow)

\* a delete-class handler has been called after a blocked attempt
C4_Witness ==
    \E r \in refused, c \in calls :
        /\ r.gate = "Suppression bloquee"
        /\ c.plan = r.plan
        /\ c.req > r.req
        /\ c.handler \in DeleteClass
        /\ c.allow

(***************************************************************************)
(* C5                                                                      *)
(***************************************************************************)
\* an apply with a wrong code on an unexpired plan: refused, the slot is what
\* it was, and the stored code still passes the code gate
C5_Step ==
    \A g \in Guilds, s \in SubmittedCodes, f \in BOOLEAN :
        ( /\ Apply(g, s, f)
          /\ Planned(g)
          /\ Unexpired(g)
          /\ CodeOf(s) /= pendingPatches[g].code ) =>
            /\ Answered("apply", "Code invalide")
            /\ NothingRuns
            /\ pendingPatches' = pendingPatches
            /\ GateNow(g, pendingPatches[g].code, FALSE)' \in {"", "Suppression bloquee"}
            /\ GateNow(g, pendingPatches[g].code, TRUE)' = ""

\* C5: a wrong code retains the plan.  An apply with an incorrect code on an
\* unexpired PendingPatch is answered "invalid code" and leaves the
\* PendingPatch unchanged; an apply with the correct code then passes the
\* code gate and, if the destructive gate allows, reaches execution.
C5_WrongCodeRetainsPlan == [][C5_Step]_vars

\* a plan was applied after one refused attempt with a wrong code
C5_Witness ==
    \E r \in refused, a \in reached :
        /\ r.gate = "Code invalide"
        /\ a.plan = r.plan
        /\ a.req > r.req

(***************************************************************************)
(* C6                                                                      *)
(***************************************************************************)
\* an apply with the right code on an expired plan: answered "expired",
\* nothing runs, the slot is cleared, and the same apply again would be
\* answered "no pending patch"
C6_Step ==
    \A g \in Guilds, s \in SubmittedCodes, f \in BOOLEAN :
        ( /\ Apply(g, s, f)
          /\ Planned(g)
          /\ ~Unexpired(g)
          /\ CodeOf(s) = pendingPatches[g].code ) =>
            /\ Answered("apply", "Expire")
            /\ NothingRuns
            /\ pendingPatches'[g] = NoPatch
            /\ GateNow(g, CodeOf(s), f)' = "Erreur"

\* C6: TTL expiry is one-shot.  An apply issued more than the TTL after the
\* plan was created, with the correct code, is answered "expired", runs no
\* action and clears the slot; a second apply with the same code is then
\* answered "no pending patch", not "expired".
C6_ExpiryOneShot == [][C6_Step]_vars

\* an expired plan was refused and the same code was refused again
C6_Witness ==
    /\ lastReply.req = nreq
    /\ lastReply.sub = "apply"
    /\ lastReply.title = "Erreur"
    /\ \E r \in refused : r.gate = "Expire" /\ r.req = nreq - 1
    /\ reached = {}

(***************************************************************************)
(* C7                                                                      *)
(***************************************************************************)
\* a plan command whose script has parse errors changes no slot, and every
\* apply is answered at the gates as it would have been before
C7_Step ==
    \A g \in Guilds, t \in Scripts, code \in CodePool :
        (Plan(g, t, code) /\ Len(ParsedScript[t].errors) > 0) =>
            /\ pendingPatches' = pendingPatches
            /\ Answered("plan", "Patch invalide")
            /\ \A s \in SubmittedCodes, f \in BOOLEAN :
                   GateNow(g, CodeOf(s), f)' = GateNow(g, CodeOf(s), f)

\* C7: a plan whose script parses with a non-empty error list leaves the
\* slot of the target exactly as it was (absent stays absent, an existing
\* PendingPatch keeps code, actions, createdAt and destructive flag and can
\* still be applied with its code); no partial plan is stored.  Every stored
\* PendingPatch holds the whole action list of an error-free parse.
C7_FailedPlanKeepsSlot ==
    /\ [][C7_Step]_vars
    /\ [](\A g \in Guilds : Planned(g) =>
             \E t \in Scripts : /\ ParsedScript[t].errors = <<>>
                                /\ pendingPatches[g].actions = ParsedScript[t].actions)

\* a script with errors was refused while an earlier plan is stored
C7_Witness ==
    /\ lastReply.sub = "plan"
    /\ lastReply.title = "Patch invalide"
    /\ \E g \in Guilds : Planned(g)

(***************************************************************************)
(* C8                                                                      *)
(***************************************************************************)
\* a plan command with an error-free script leaves in the slot the code,
\* actions, creation time and destructive flag of that plan
C8_Step ==
    \A g \in Guilds, t \in Scripts, code \in CodePool :
        (Plan(g, t, code) /\ ParsedScript[t].errors = <<>>) =>
            /\ Planned(g)'
            /\ pendingPatches'[g].code = code
            /\ pendingPatches'[g].actions = ParsedScript[t].actions
            /\ pendingPatches'[g].createdAt = now
            /\ pendingPatches'[g].hasDeletes = ContainsDeleteClass(ParsedScript[t].actions)

\* the slot holds the fields of one successful plan command, all of them
C8_OnePlan ==
    \A g \in Guilds : Planned(g) =>
        \E p \in stored :
            /\ p.id = pendingPatches[g].id
            /\ p.guild = g
            /\ pendingPatches[g].code = p.code
            /\ pendingPatches[g].createdAt = p.at
            /\ pendingPatches[g].actions = ParsedScript[ScriptList[p.script]].actions
            /\ pendingPatches[g].hasDeletes = ContainsDeleteClass(pendingPatches[g].actions)

\* an apply dispatched after a successful plan does not execute the actions
\* of a plan stored before that one
C8_NoEarlierPlan ==
    \A a \in reached, p \in stored :
        ~(p.guild = a.guild /\ a.plan < p.id /\ p.id < a.req)

\* C8: plan replacement is atomic.  After two successful plan calls for a
\* target the store holds one PendingPatch for it whose code, actions,
\* createdAt and destructive flag are all those of the second plan; no later
\* apply executes the actions of the first plan, and the slot never mixes
\* fields of two plans.
C8_PlanReplacementAtomic ==
    /\ [][C8_Step]_vars
    /\ [](C8_OnePlan /\ C8_NoEarlierPlan)

\* two plans were stored with different codes and scripts, and an apply
\* dispatched after the second one executes
C8_Witness ==
    \E p, q \in stored, a \in reached :
        /\ p.id < q.id
        /\ p.guild = q.guild
        /\ p.code /= q.code
        /\ p.script /= q.script
        /\ a.plan = q.id

(***************************************************************************)
(* C9                                                                      *)
(***************************************************************************)
\* nothing is stored for g and every apply is answered "no pending patch"
SlotGone(g) ==
    /\ ~Planned(g)
    /\ \A s \in SubmittedCodes, f \in BOOLEAN : GateNow(g, CodeOf(s), f) = "Erreur"

C9_Step ==
    \* an apply suspended in applyActions completes
    /\ \A c \in inflight : Completes(c) =>
           /\ lastReply'.req = c.req
           /\ lastReply'.title = "Patch APPLY termine"
           /\ SlotGone(c.guild)'
    \* an apply completes without ever suspending
    /\ \A g \in Guilds :
           (nreq' = nreq + 1 /\ lastReply'.req = nreq' /\ lastReply'.guild = g
                /\ lastReply'.title = "Patch APPLY termine") =>
               SlotGone(g)'
    \* only a successful plan fills an empty slot
    /\ \A g \in Guilds :
           (~Planned(g) /\ Planned(g)') =>
               (Answered("plan", "Patch PLAN (dry-run)") /\ lastReply'.guild = g)

\* C9: once an apply has passed the four gates and its execution has
\* completed, the slot of the target is absent whatever the per-action
\* outcomes were, and a following apply with the same code is answered "no
\* pending patch" until a fresh plan succeeds.
C9_AppliedPlanIsGone == [][C9_Step]_vars

\* an apply completed with a success and a failure among its results
C9_Witness ==
    /\ lastReply.title = "Patch APPLY termine"
    /\ \E k \in 1..Len(lastReply.results) : lastReply.results[k].ok
    /\ \E k \in 1..Len(lastReply.results) : ~lastReply.results[k].ok
    /\ ~Planned(lastReply.guild)

(***************************************************************************)
(* C10                                                                     *)
(***************************************************************************)
\* the result of an action whose handler settles without awaiting the API
SyncResultOk(a, r) ==
    /\ r.line = a.line
    /\ a.handler \in HANDLERS =>
          /\ HandlerSync(a.handler, a.args).kind = "return" => r.ok
          /\ HandlerSync(a.handler, a.args).kind = "throw" =>
                (~r.ok /\ r.error = HandlerSync(a.handler, a.args).error)

\* the results an apply holds after a step: those of its record while it is
\* suspended, those of its reply once it has completed
ResultsAfter(req) ==
    IF \E d \in inflight' : d.req = req
    THEN (CHOOSE d \in inflight' : d.req = req).results
    ELSE lastReply'.results

C10_Step ==
    \A c \in inflight, o \in ApiOutcomes :
        ApplySettle(c, o) =>
            LET acts == c.pending.actions
                res  == ResultsAfter(c.req)
            IN  /\ Len(res) >= c.i
                /\ Len(res) <= Len(acts)
                /\ SubSeq(res, 1, c.i - 1) = c.results
                /\ res[c.i].line = acts[c.i].line
                /\ res[c.i].ok = (o = "ok")
                /\ o /= "ok" => res[c.i].error = o
                /\ \A k \in (c.i + 1)..Len(res) : SyncResultOk(acts[k], res[k])
                /\ Completes(c) => Len(res) = Len(acts)

\* what a suspended apply holds: one result per action before the awaited one
C10_Shape ==
    \A c \in inflight :
        /\ c.i <= Len(c.pending.actions)
        /\ Len(c.results) = c.i - 1
        /\ \A k \in 1..Len(c.results) : c.results[k].line = c.pending.actions[k].line

\* C10: partial-failure isolation.  applyActions returns one result per
\* action, in action order; when the handler of action i raises, result i is
\* a failure carrying the message and every action after i is still
\* attempted, its result depending on its own handler outcome only.
\* applyActions never raises: an apply that passed the gates ends with the
\* reply that lists the results.
C10_PartialFailureIsolation ==
    /\ [][C10_Step]_vars
    /\ []C10_Shape

\* a batch of three whose second handler raised: success, failure, success
C10_Witness ==
    /\ lastReply.title = "Patch APPLY termine"
    /\ Len(lastReply.results) = 3
    /\ lastReply.results[1].ok
    /\ ~lastReply.results[2].ok
    /\ lastReply.results[2].error = "id invalide"
    /\ lastReply.results[3].ok

(***************************************************************************)
(* C11                                                                     *)
(***************************************************************************)
\* the handler calls apply req has started
CallsBy(req) == {k \in calls : k.req = req}

\* a suspended applyActions: every action before the awaited one has its
\* result, the awaited handler has been called, no later one has
C11_OneInFlight ==
    \A c \in inflight :
        /\ Len(c.results) = c.i - 1
        /\ \E k \in CallsBy(c.req) : k.idx = c.i
        /\ \A k \in CallsBy(c.req) : k.idx <= c.i

\* a suspended applyActions starts a handler only in the step in which the
\* call it awaits completes, and the handlers it starts come after that one
C11_Step ==
    \A c \in inflight :
        \A k \in calls' \ calls :
            k.req = c.req => (c \notin inflight' /\ k.idx > c.i)

\* C11: within one applyActions call the handler calls are strictly
\* sequential: the handler of action i+1 is started only after the handler
\* call of action i has completed (returned or raised), so at most one
\* handler call of the batch is in flight at any time.
C11_SequentialHandlers ==
    /\ [][C11_Step]_vars
    /\ []C11_OneInFlight

\* a batch suspended in its third handler after the first one completed
C11_Witness ==
    \E c \in inflight :
        /\ c.i = 3
        /\ \E k \in CallsBy(c.req) : k.idx = 1
        /\ Len(c.results) = 2

(***************************************************************************)
(* C12                                                                     *)
(***************************************************************************)
\* the action list the parser produced for the plan command with this id
ParsedOf(id) ==
    ParsedScript[ScriptList[(CHOOSE p \in stored : p.id = id).script]].actions

LinesOf(seq) == [k \in 1..Len(seq) |-> seq[k].line]

\* the parser lists the operation lines of a script in increasing line
\* number, each action holding the text of its line
C12_ScriptOrder ==
    \A t \in Scripts :
        LET acts == ParsedScript[t].actions
        IN  /\ \A j, k \in 1..Len(acts) : j < k => acts[j].line < acts[k].line
            /\ \A k \in 1..Len(acts) : acts[k].raw = SplitLines(t)[acts[k].line]

\* what is stored, what a running apply iterates over, the handler calls it
\* makes and the results it reports are the parser's list, in its order
C12_EndToEnd ==
    /\ \A g \in Guilds : Planned(g) =>
           pendingPatches[g].actions = ParsedOf(pendingPatches[g].id)
    /\ \A c \in inflight :
           /\ c.pending.actions = ParsedOf(c.pending.id)
           /\ LinesOf(c.results) = LinesOf(SubSeq(c.pending.actions, 1, c.i - 1))
    /\ \A k \in calls :
           /\ k.idx \in 1..Len(ParsedOf(k.plan))
           /\ k.handler = ParsedOf(k.plan)[k.idx].handler
           /\ k.args = ParsedOf(k.plan)[k.idx].args
    /\ (lastReply.title = "Patch APPLY termine") =>
           \E a \in reached :
               /\ a.req = lastReply.req
               /\ LinesOf(lastReply.results) = LinesOf(ParsedOf(a.plan))
               /\ \A k \in 1..Len(lastReply.results) :
                      lastReply.results[k].handler \in {ParsedOf(a.plan)[k].handler, Undefined}

\* C12: action order is preserved end-to-end.  The sequence of actions the
\* executor runs for an apply is the sequence the parser produced at plan
\* time, which lists the operation lines of the script in increasing line
\* number; nothing between plan and apply reorders, drops, duplicates or
\* changes an action or its bound arguments.
C12_OrderPreserved == C12_ScriptOrder /\ C12_EndToEnd

\* the three actions of a script whose first line is a comment were run in
\* the order of their lines
C12_Witness ==
    /\ lastReply.title = "Patch APPLY termine"
    /\ LinesOf(lastReply.results) = <<2, 3, 4>>
    /\ {k.idx : k \in CallsBy(lastReply.req)} = {1, 2, 3}

(***************************************************************************)
(* C13 (two guilds)                                                        *)
(***************************************************************************)
\* the slot of a guild is absent or holds one PendingPatch
C13_Slot ==
    \A g \in GuildsTwo :
        \/ pendingPatches[g] = NoPatch
        \/ /\ DOMAIN pendingPatches[g] = {"code", "actions", "createdAt", "hasDeletes", "id"}
           /\ pendingPatches[g].code \in CodePool
           /\ pendingPatches[g].createdAt \in 0..now
           /\ pendingPatches[g].hasDeletes \in BOOLEAN

\* the listed transitions of the slot of g
C13_Listed(g) ==
    \/ /\ pendingPatches'[g] /= NoPatch
       /\ \E t \in ScriptsTwo, code \in CodePool :
              Plan(g, t, code) /\ ParsedScript[t].errors = <<>>
    \/ /\ pendingPatches[g] /= NoPatch
       /\ pendingPatches'[g] = NoPatch
       /\ lastReply'.guild = g
       /\ \/ /\ lastReply'.title = "Patch APPLY termine"
             /\ lastReply'.req \in {a.req : a \in reached'}
          \/ Answered("apply", "Expire")
          \/ Answered("cancel", "Patch annule")

\* the commands of guild g
C13_CommandOf(g) ==
    \/ Cancel(g)
    \/ PlanNoAttachment(g)
    \/ \E t \in ScriptsTwo, code \in CodePool : Plan(g, t, code)
    \/ \E s \in SubmittedCodes, f \in BOOLEAN : Apply(g, s, f)
    \/ \E c \in inflight, o \in ApiOutcomes : c.guild = g /\ ApplySettle(c, o)

C13_Step ==
    /\ \A g \in GuildsTwo :
           pendingPatches'[g] /= pendingPatches[g] => C13_Listed(g)
    /\ (\E d \in TickSteps : Tick(d)) => pendingPatches' = pendingPatches
    /\ \A g \in GuildsTwo, t \in ScriptsTwo, code \in CodePool :
           (Plan(g, t, code) /\ ParsedScript[t].errors /= <<>>) =>
               pendingPatches' = pendingPatches
    /\ \A g \in GuildsTwo :
           (PlanNoAttachment(g)
              \/ Answered("apply", "Code invalide")
              \/ Answered("apply", "Suppression bloquee")) =>
               pendingPatches' = pendingPatches
    /\ \A g, h \in GuildsTwo :
           (g /= h /\ C13_CommandOf(g)) => pendingPatches'[h] = pendingPatches[h]

\* C13: per target the slot is absent or holds one PendingPatch, and it
\* changes only by the listed transitions: absent to planned and planned to
\* planned on an error-free plan, planned to absent on an apply reaching
\* execution, on an apply detecting expiry, or on cancel.  The passage of
\* time alone, a failed plan, a wrong-code apply and a destructive-blocked
\* apply leave it unchanged, and plan, apply or cancel on one target never
\* changes the slot of another target.
C13_SlotTransitions ==
    /\ [][C13_Step]_vars
    /\ []C13_Slot

\* both guilds had a plan stored and the cancel of one left the other's
C13_Witness ==
    /\ lastReply.sub = "cancel"
    /\ lastReply.guild = "g1"
    /\ pendingPatches["g1"] = NoPatch
    /\ pendingPatches["g2"] /= NoPatch
    /\ \E p, q \in stored : p.guild = "g1" /\ q.guild = "g2" /\ p.id < q.id

(***************************************************************************)
(* C14                                                                     *)
(***************************************************************************)
\* a cancel leaves the slot absent and calls no handler; every apply is then
\* answered "no pending patch"; on an absent slot it changes no slot, and a
\* second delete changes nothing more
C14_Step ==
    \A g \in Guilds :
        Cancel(g) =>
            /\ Answered("cancel", "Patch annule")
            /\ pendingPatches'[g] = NoPatch
            /\ NothingRuns
            /\ \A s \in SubmittedCodes, f \in BOOLEAN : GateNow(g, CodeOf(s), f)' = "Erreur"
            /\ ~Planned(g) => pendingPatches' = pendingPatches
            /\ StoreDelete(pendingPatches', g) = pendingPatches'

\* C14: cancel on a planned target moves the slot to absent without running
\* any action, so that a following apply with the formerly valid code is
\* answered "no pending patch"; cancel on an absent target changes nothing,
\* and cancel is idempotent.
C14_CancelClearsSlot == [][C14_Step]_vars

\* a plan was stored and the next command, a cancel, removed it before any
\* apply was sent
C14_Witness ==
    /\ lastReply.sub = "cancel"
    /\ lastReply.req = nreq
    /\ \E p \in stored : p.id = nreq - 1 /\ p.guild = lastReply.guild
    /\ reached = {}
    /\ refused = {}
    /\ pendingPatches[lastReply.guild] = NoPatch

(***************************************************************************)
(* C15                                                                     *)
(***************************************************************************)
\* every action of the list was attempted by apply req: it has its result,
\* and its handler, when there is one, was called
AllAttempted(req, actions, results, called) ==
    /\ LinesOf(results) = LinesOf(actions)
    /\ \A k \in 1..Len(actions) :
           actions[k].handler \in HANDLERS =>
               \E x \in called : x.req = req /\ x.idx = k /\ x.handler = actions[k].handler

\* a suspended apply stays as it is in a step of another command, goes on
\* with the same list further down, or completes with every action attempted
C15_Step ==
    \A c \in inflight :
        \/ c \in inflight'
        \/ \E d \in inflight' :
              /\ d.req = c.req
              /\ d.pending = c.pending
              /\ d.i > c.i
              /\ SubSeq(d.results, 1, Len(c.results)) = c.results
        \/ /\ Completes(c)
           /\ lastReply'.req = c.req
           /\ lastReply'.title = "Patch APPLY termine"
           /\ AllAttempted(c.req, c.pending.actions, lastReply'.results, calls')

\* C15: no mid-batch cancellation.  Once an apply has passed the four gates
\* every action of the stored list is attempted, also when a cancel or a new
\* successful plan for the same target is processed while the batch is
\* executing; those operations change neither the set nor the order of the
\* actions the running apply executes.
C15_NoMidBatchCancel ==
    /\ [][C15_Step]_vars
    /\ [](\A c \in inflight : c.pending.actions = ParsedOf(c.pending.id))

\* an apply completed its three actions although a new plan of the guild
\* was stored while it was suspended
C15_Witness ==
    /\ lastReply.title = "Patch APPLY termine"
    /\ lastReply.req < nreq
    /\ Len(lastReply.results) = 3
    /\ {k.idx : k \in CallsBy(lastReply.req)} = {1, 2, 3}
    /\ \E p \in stored : p.id > lastReply.req /\ p.guild = lastReply.guild

(***************************************************************************)
(* Vocabulary of the parser properties, stated on the lines the script was *)
(* built from and on the text of the registry file.                        *)
(***************************************************************************)
\* the left-hand sides `verb:type` of the entries of the registry file
RegistryLeft ==
    LET lines == SplitLines(OpsText)
    IN  {Trim(Split(Trim(lines[k]), "=")[1]) :
            k \in {j \in 1..Len(lines) :
                      Trim(lines[j]) /= <<>> /\ ~StartsWith(Trim(lines[j]), "#")}}

KeyText(verb, type) == verb \o <<":">> \o type

Resolvable(l) ==
    /\ l.kind = "op"
    /\ (KeyText(l.verb, l.type) \in RegistryLeft \/ KeyText(l.verb, W_star) \in RegistryLeft)

Unresolvable(l) == l.kind = "op" /\ ~Resolvable(l)

\* a line that is neither blank nor a comment and has fewer than two tokens
Malformed(l) ==
    /\ l.kind = "raw"
    /\ Trim(l.text) /= <<>>
    /\ ~StartsWith(Trim(l.text), "#")

\* the lines the loop reads: those with at most max resolvable lines before
\* them (the loop ends once it has emitted more than max actions)
Consumed(lines, max) ==
    {i \in 1..Len(lines) :
        Cardinality({j \in 1..(i - 1) : Resolvable(lines[j])}) <= max}

Parsed == pout.kind = "parse"

\* the diagnostics of lines, without the overflow diagnostic
LineErrors(res) == SelectSeq(res.errors, LAMBDA e : e.kind /= "trop d'actions")

Increasing(seq) == \A j, k \in 1..Len(seq) : j < k => seq[j].line < seq[k].line

(***************************************************************************)
(* C16                                                                     *)
(***************************************************************************)
\* what the parse of the lines returned answers to the lines one by one
C16_Accumulates(lines, max, res) ==
    LET read    == Consumed(lines, max)
        unknown == {i \in read : Unresolvable(lines[i])}
        broken  == {i \in read : Malformed(lines[i])}
        good    == {i \in read : Resolvable(lines[i])}
        errs    == LineErrors(res)
    IN  /\ Len(errs) = Cardinality(unknown) + Cardinality(broken)
        /\ Increasing(errs)
        /\ \A i \in unknown :
               \E k \in 1..Len(errs) :
                   /\ errs[k].line = i
                   /\ errs[k].kind = "operation inconnue"
                   /\ errs[k].op = KeyText(lines[i].verb, lines[i].type)
        /\ \A i \in broken :
               \E k \in 1..Len(errs) : errs[k].line = i /\ errs[k].kind = "format invalide"
        /\ Len(res.actions) = Cardinality(good)
        /\ Increasing(res.actions)
        /\ \A i \in good : \E k \in 1..Len(res.actions) : res.actions[k].line = i
        /\ (Cardinality({i \in 1..Len(lines) : Resolvable(lines[i])}) < max /\ broken = {}) =>
               Len(res.errors) = Cardinality({i \in 1..Len(lines) : Unresolvable(lines[i])})

\* C16: diagnostics accumulate and never abort parsing.  Each line that
\* cannot be resolved adds one error naming its 1-based line number in the
\* script (blank and comment lines counted) and no action, and parsing goes
\* on with the next line; every resolvable line before or after it yields
\* its action.  A script with k unresolvable lines and fewer than
\* maxActions resolvable lines yields k errors.  (The loop reads the lines
\* up to the one whose action exceeds maxActions.)
C16_DiagnosticsAccumulate ==
    Parsed => C16_Accumulates(pin, pout.max, pout.two)

\* a resolvable line between two unresolvable ones: errors for lines 1 and
\* 3, the action of line 2
C16_Witness ==
    /\ Parsed
    /\ Len(pin) = 3
    /\ Unresolvable(pin[1]) /\ Resolvable(pin[2]) /\ Unresolvable(pin[3])
    /\ LinesOf(pout.two.errors) = <<1, 3>>
    /\ LinesOf(pout.two.actions) = <<2>>

(***************************************************************************)
(* C17                                                                     *)
(***************************************************************************)
\* the overflow diagnostics of a parse
OverflowErrors(res) == SelectSeq(res.errors, LAMBDA e : e.kind = "trop d'actions")

\* every line of the script is a resolvable operation line
AllValid(lines) == \A i \in 1..Len(lines) : Resolvable(lines[i])

\* C17: overflow cap.  For every maxActions >= 1 a script with more than
\* maxActions otherwise-valid lines parses to exactly maxActions actions and
\* exactly one overflow diagnostic, however many lines exceed the limit.
C17_OverflowCap ==
    (Parsed /\ AllValid(pin) /\ Len(pin) > pout.max) =>
        /\ Len(pout.two.actions) = pout.max
        /\ Len(OverflowErrors(pout.two)) = 1
        /\ Len(pout.two.errors) = 1

(***************************************************************************)
(* C18                                                                     *)
(***************************************************************************)
Resolved == pout.kind = "resolve"

\* the left-hand side of the line of the registry file an entry was read from
LeftOfEntry(op) == Trim(Split(Trim(SplitLines(OpsText)[op.line]), "=")[1])

\* C18: exact-over-wildcard resolution.  resolve(verb, type) returns the
\* entry keyed verb:type when it exists, otherwise the entry keyed verb:*
\* when it exists, otherwise fails; it never returns an entry registered
\* under a different verb, and a wildcard entry never shadows an exact entry
\* of the same verb.
C18_ExactOverWildcard ==
    Resolved =>
        LET exact == KeyText(pout.verb, pout.type)
            wild  == KeyText(pout.verb, W_star)
        IN  IF exact \in RegistryLeft
            THEN pout.op /= Null /\ LeftOfEntry(pout.op) = exact
            ELSE IF wild \in RegistryLeft
            THEN pout.op /= Null /\ LeftOfEntry(pout.op) = wild
            ELSE pout.op = Null

\* a verb with an exact and a wildcard entry, resolved for the type of the
\* exact entry
C18_Witness ==
    /\ Resolved
    /\ pout.verb = W_set
    /\ pout.type = W_channel
    /\ KeyText(W_set, W_star) \in RegistryLeft
    /\ pout.op /= Null
    /\ pout.op.handler = H_channelRename

(***************************************************************************)
(* C19                                                                     *)
(***************************************************************************)
IsNamed(tok) == IndexOf(tok, "=") > 0

NamedKey(tok) == Trim(Slice(tok, 0, IndexOf(tok, "=")))

NamedValue(tok) == Trim(Slice(tok, IndexOf(tok, "=") + 1, Len(tok)))

\* the argument tokens that give a value to parameter p by name
NamedFor(rest, p) == {j \in 1..Len(rest) : IsNamed(rest[j]) /\ NamedKey(rest[j]) = p}

PositionalOf(rest) == SelectSeq(rest, LAMBDA tok : ~IsNamed(tok))

\* the schema of the operation a resolvable line names
SchemaOf(l) == resolveOp(OpsMapLoaded, l.verb, l.type).params

\* the value the m-th parameter of the schema is bound to
BoundValue(schema, rest, m) ==
    LET given == NamedFor(rest, schema[m])
        n     == Cardinality({q \in 1..m : NamedFor(rest, schema[q]) = {}})
        pos   == PositionalOf(rest)
    IN  IF given /= {} THEN NamedValue(rest[CHOOSE j \in given : \A i \in given : i <= j])
        ELSE IF n <= Len(pos) THEN pos[n]
        ELSE <<>>

OutcomeOf(res) ==
    [actions |-> [k \in 1..Len(res.actions) |->
                    [line |-> res.actions[k].line, handler |-> res.actions[k].handler,
                     args |-> res.actions[k].args]],
     errors  |-> [k \in 1..Len(res.errors) |->
                    [line |-> res.errors[k].line, kind |-> res.errors[k].kind]]]

\* C20: the colon shorthand is equivalent to the two-token form.  For every
\* verb, resource type and argument list, the empty argument list included,
\* the line `verb:resourceType args` parses to the same outcome (the same
\* action with the same handler and bound arguments, or the same kind of
\* error) as the line `verb resourceType args`.
C20_ColonEquivalent ==
    Parsed => OutcomeOf(pout.colon) = OutcomeOf(pout.two)

(***************************************************************************)
(* C30                                                                     *)
(***************************************************************************)
\* the first gate that fails, in the order absent, expired, invalid code,
\* destructive-blocked, stated on the slot and the arguments of the apply
FirstFailing(g, submitted, flag) ==
    IF ~Planned(g) THEN "Erreur"
    ELSE IF ~Unexpired(g) THEN "Expire"
    ELSE IF CodeOf(submitted) /= pendingPatches[g].code THEN "Code invalide"
    ELSE IF ContainsDeleteClass(pendingPatches[g].actions) /\ ~flag THEN "Suppression bloquee"
    ELSE ""

\* an apply for which a gate fails is answered with the first failing gate
\* and the slot is deleted when that gate is the expiry, kept otherwise
C30_Step ==
    \A g \in Guilds, s \in SubmittedCodes, f \in BOOLEAN :
        (Apply(g, s, f) /\ SomeGateFails(g, s, f)) =>
            /\ Answered("apply", FirstFailing(g, s, f))
            /\ NothingRuns
            /\ pendingPatches' =
                   IF FirstFailing(g, s, f) = "Expire"
                   THEN [pendingPatches EXCEPT ![g] = NoPatch]
                   ELSE pendingPatches

\* C30: when several gates would fail at once, apply reports the first one
\* in the order absent, expired, invalid code, destructive-blocked and
\* applies the side effect of that gate only: an expired PendingPatch
\* submitted with a wrong code is reported "expired" and deleted; an
\* unexpired destructive PendingPatch submitted with a wrong code and
\* without allowDestructive is reported "invalid code" and retained.
C30_FirstGateWins == [][C30_Step]_vars

\* a destructive plan was refused for its code by an apply that did not
\* allow deletes, and refused as expired by a later apply with a wrong code
C30_Witness ==
    \E r, x \in refused :
        /\ r.plan = x.plan
        /\ r.gate = "Code invalide"
        /\ x.gate = "Expire"
        /\ x.req = nreq
        /\ lastReply.title = "Expire"
        /\ pendingPatches[lastReply.guild] = NoPatch
        /\ \E p \in stored :
               /\ p.id = r.plan
               /\ ContainsDeleteClass(ParsedScript[ScriptList[p.script]].actions)
               /\ x.code /= p.code

(***************************************************************************)
(* C21                                                                     *)
(***************************************************************************)
Quotes == {DQ, SQ}

\* a named argument whose value is written between two quote characters
QuotedNamed(tok) ==
    /\ IsNamed(tok)
    /\ LET v == NamedValue(tok)
       IN  Len(v) >= 2 /\ v[1] \in Quotes /\ v[Len(v)] = v[1]

\* the text between the quote characters
Unquoted(v) == SubSeq(v, 2, Len(v) - 1)

\* C21: a named argument whose value is written in quotes is bound without
\* the quote characters: the line set channel ID name="Lounge", resolved by
\* an entry whose schema is [id, name], yields an action whose name is the
\* six-character string Lounge, with no quote character in it.
C21_QuotedNamedValue ==
    Parsed =>
        \A k \in 1..Len(pout.two.actions) :
            LET a == pout.two.actions[k]
                l == pin[a.line]
            IN  \A j \in 1..Len(l.rest) :
                    (QuotedNamed(l.rest[j]) /\ NamedKey(l.rest[j]) \in DOMAIN a.args) =>
                        /\ a.args[NamedKey(l.rest[j])] = Unquoted(NamedValue(l.rest[j]))
                        /\ \A c \in 1..Len(a.args[NamedKey(l.rest[j])]) :
                               a.args[NamedKey(l.rest[j])][c] \notin Quotes

(***************************************************************************)
(* C22                                                                     *)
(***************************************************************************)
Loaded == pout.kind = "load"

\* the text before and after the first occurrence of a separator
Before(text, c) == IF IndexOf(text, c) < 0 THEN text ELSE Trim(Slice(text, 0, IndexOf(text, c)))

After(text, c) ==
    IF IndexOf(text, c) < 0 THEN <<>> ELSE Trim(Slice(text, IndexOf(text, c) + 1, Len(text)))

\* a mapping line that lacks the equals sign or a side of it, the verb or
\* the type around the colon of its left side, or the handler id
MalformedEntry(text) ==
    \/ IndexOf(text, "=") < 0
    \/ Before(text, "=") = <<>>
    \/ After(text, "=") = <<>>
    \/ IndexOf(Before(text, "="), ":") < 0
    \/ Before(Before(text, "="), ":") = <<>>
    \/ After(Before(text, "="), ":") = <<>>
    \/ Before(After(text, "="), ":") = <<>>

\* C22: registry load skips malformed entries.  A mapping line that lacks
\* the equals sign or either side of it, or whose left side lacks the verb
\* or the resource type around the inner colon, or whose right side lacks
\* the handler id, adds no entry to the registry.
C22_MalformedSkipped ==
    (Loaded /\ MalformedEntry(pout.text)) => pout.map = EmptyOpsMap

(***************************************************************************)
(* C24                                                                     *)
(***************************************************************************)
Summarized == pout.kind = "summary"

\* the entries of a summary text: the handler and the count each line shows
RECURSIVE NumberOf(_)
NumberOf(text) ==
    IF text = <<>> THEN 0
    ELSE 10 * NumberOf(SubSeq(text, 1, Len(text) - 1))
         + (CHOOSE d \in 0..9 : DigitChars[d + 1] = text[Len(text)])

EntryOf(line) ==
    [handler |-> Slice(line, 2, IndexOf(line, ":")),
     count   |-> NumberOf(Slice(line, IndexOf(line, ":") + 2, Len(line)))]

EntriesOf(text) ==
    IF text = AucuneAction THEN <<>>
    ELSE [k \in 1..Len(Split(text, NL)) |-> EntryOf(Split(text, NL)[k])]

UsesOf(actions, h) == {k \in 1..Len(actions) : actions[k].handler = h}

FirstUse(actions, h) == CHOOSE k \in UsesOf(actions, h) : \A j \in UsesOf(actions, h) : k <= j

RECURSIVE SumCounts(_)
SumCounts(entries) ==
    IF entries = <<>> THEN 0 ELSE Head(entries).count + SumCounts(Tail(entries))

WholeParse(v, t) == ParsedTable[v][t]

\* a plan made in this step has the outcome of parsing the whole script
\* against the table of the content the last completed load read
C23_Step ==
    \A g \in Guilds, t \in Scripts :
        Plan(g, t, CODE_1) =>
            LET res == WholeParse(opsLoaded, t)
            IN  IF res.errors /= <<>>
                THEN Answered("plan", "Patch invalide") /\ pendingPatches' = pendingPatches
                ELSE Answered("plan", "Patch PLAN (dry-run)")
                     /\ pendingPatches'[g].actions = res.actions

\* C23: hot reload.  After a reload of the registry completes, every parse
\* that starts afterwards resolves operations against the newly loaded table
\* only, and no parse resolves some lines of one script against the old
\* table and other lines against the new one.
C23_HotReload == [][C23_Step]_vars

\* after a reload of an edited ops.map a plan stored the actions the new
\* table gives for a script both of whose other lines the old table
\* resolves differently
C23_Witness ==
    /\ opsLoaded = 2
    /\ lastReply.req = nreq
    /\ lastReply.title = "Patch PLAN (dry-run)"
    /\ \E t \in Scripts :
           /\ pendingPatches[lastReply.guild] /= NoPatch
           /\ pendingPatches[lastReply.guild].actions = WholeParse(2, t).actions
           /\ Cardinality({k \in 1..Len(WholeParse(2, t).actions) :
                              k <= Len(WholeParse(1, t).actions)
                              /\ WholeParse(1, t).actions[k].handler
                                    /= WholeParse(2, t).actions[k].handler}) >= 2

(***************************************************************************)
(* Vocabulary of the executor properties.                                  *)
(***************************************************************************)
\* the calls to the external API made for the action at index k
CallsFor(k) == {n \in 1..Len(ex.log) : ex.log[n].idx = k}

MutatesFor(k) == {n \in CallsFor(k) : ex.log[n].call = "mutate"}

\* some function was called for the action at index k
Invoked(k) == \E n \in 1..Len(ex.invoked) : ex.invoked[n] = k

\* the handler id of the action is not one the executor registers
Unregistered(k) == ex.actions[k].handler \notin HANDLERS

(***************************************************************************)
(* C25: for every action whose handler id has no registered runtime        *)
(* implementation, the executor records a failed result with the "handler  *)
(* unknown" error, invokes nothing, makes no external call for the action  *)
(* and continues with the next action.                                     *)
(***************************************************************************)
C25_UnknownHandler ==
    /\ \A k \in 1..Len(ex.results) :
          Unregistered(k) =>
              /\ ~ex.results[k].ok
              /\ ex.results[k].error = "handler inconnu"
              /\ ~Invoked(k)
              /\ CallsFor(k) = {}
    /\ ex.pc = "done" => Len(ex.results) = Len(ex.actions)

(***************************************************************************)
(* C26: a handler given an identifier argument (id, channel, role, or a    *)
(* parent other than empty or none) that is not a 17 to 20 digit decimal   *)
(* string fails before it issues any call, lookup or mutation, to the      *)
(* external API; the parser lets the malformed identifier through.         *)
(***************************************************************************)
IdentifierArgs == {W_id, W_channel, W_role}

Decimal17to20(v) == Len(v) \in 17..20 /\ \A k \in 1..Len(v) : v[k] \in Digits

BadIdentifier(args) ==
    \/ \E p \in IdentifierArgs \cap DOMAIN args : ~Decimal17to20(args[p])
    \/ /\ W_parent \in DOMAIN args
       /\ args[W_parent] \notin {<<>>, W_none}
       /\ ~Decimal17to20(args[W_parent])

C26_IdentifierValidation ==
    /\ ex.pc /= "edit" => Len(ex.actions) = Len(ex.script)
    /\ \A k \in 1..Len(ex.actions) :
          (Invoked(k) /\ BadIdentifier(ex.actions[k].args)) =>
              /\ CallsFor(k) = {}
              /\ k <= Len(ex.results) => ~ex.results[k].ok

(***************************************************************************)
(* C27: every handler invocation makes at most one mutating call to the    *)
(* external API; an invocation that fails a validation has made none; the  *)
(* noop handler makes no call and reports changed = false; a handler is    *)
(* invoked at most once per action of one apply.                           *)
(***************************************************************************)
ValidationErrors ==
    { "id invalide", "channel invalide", "role invalide", "parent invalide", "name vide",
      "ctype invalide", "enabled invalide", "seconds invalide",
      "Permission inconnue (allow)", "Permission inconnue (deny)", "introuvable",
      "topic non supporte", "slowmode non supporte", "NSFW non supporte" }

C27_OneMutation ==
    /\ \A k \in 1..Len(ex.actions) : Cardinality(MutatesFor(k)) <= 1
    /\ \A k \in 1..Len(ex.results) :
          ex.results[k].error \in ValidationErrors => MutatesFor(k) = {}
    /\ \A k \in 1..Len(ex.results) :
          ex.actions[k].handler = H_noop =>
              /\ CallsFor(k) = {}
              /\ ex.results[k].ok
              /\ ex.results[k].changed = FALSE
    /\ \A m, n \in 1..Len(ex.invoked) : ex.invoked[m] = ex.invoked[n] => m = n

\* a target that was looked up and not found, then an action that changed
\* the guild by one call
C27_Witness ==
    /\ ex.pc = "done"
    /\ Len(ex.results) = 2
    /\ ex.results[1].error = "introuvable"
    /\ CallsFor(1) /= {}
    /\ MutatesFor(1) = {}
    /\ ex.results[2].ok
    /\ Cardinality(MutatesFor(2)) = 1

(***************************************************************************)
(* C28: after any sequence of up and down presses by any users, no user is *)
(* in both the up set and the down set of a suggestion; pressing the       *)
(* button of the vote a user already holds removes that vote, and pressing *)
(* the opposite button moves the user to the other set.                    *)
(***************************************************************************)
Opposite(action) == IF action = "up" THEN "down" ELSE "up"

VotersOf(sug, action) == IF action = "up" THEN sug.up ELSE sug.down

C28_NeverBoth ==
    \A id \in SuggestionIds :
        suggestions[id] /= NoSuggestion => suggestions[id].up \cap suggestions[id].down = {}

C28_Step ==
    presses' = presses + 1 =>
        LET u      == lastPress'.user
            a      == lastPress'.action
            before == suggestions[lastPress'.id]
            after  == suggestions'[lastPress'.id]
        IN  before /= NoSuggestion =>
                /\ u \in VotersOf(before, a) =>
                       /\ u \notin after.up
                       /\ u \notin after.down
                /\ u \in VotersOf(before, Opposite(a)) =>
                       /\ u \in VotersOf(after, a)
                       /\ u \notin VotersOf(after, Opposite(a))
                /\ \A w \in Users \ {u} :
                       /\ w \in after.up <=> w \in before.up
                       /\ w \in after.down <=> w \in before.down

C28_SuggestionVotes == []C28_NeverBoth /\ [][C28_Step]_vars

\* a user who held the up vote has pressed down and is now counted there
C28_Witness ==
    /\ lastPress.held = "up"
    /\ lastPress.action = "down"
    /\ suggestions[lastPress.id] /= NoSuggestion
    /\ lastPress.user \in suggestions[lastPress.id].down
    /\ lastPress.user \notin suggestions[lastPress.id].up

(***************************************************************************)
(* C29: splitDescription(text, limit) on a text longer than limit returns  *)
(* chunks of at most limit characters each, in the order of the text,      *)
(* whose concatenation is the text without newline characters removed      *)
(* where a chunk starts; a text of at most limit characters is returned as *)
(* one chunk.  A text of 9000 characters without newlines and limit 4096   *)
(* gives 3 chunks, and buildEmbedsFromSpec gives one embed per chunk.      *)
(***************************************************************************)
AllNewlines(str) == \A k \in 1..Len(str) : str[k] = NL

\* text is the chunks in order, each followed by no or some newlines
RECURSIVE ChunksCover(_, _)
ChunksCover(text, chunks) ==
    IF chunks = <<>> THEN text = <<>>
    ELSE LET c == Head(chunks)
         IN  /\ Len(c) <= Len(text)
             /\ SubSeq(text, 1, Len(c)) = c
             /\ \E n \in 0..(Len(text) - Len(c)) :
                   /\ AllNewlines(SubSeq(text, Len(c) + 1, Len(c) + n))
                   /\ ChunksCover(SubSeq(text, Len(c) + n + 1, Len(text)), Tail(chunks))

AgeOf(g) == now - pendingPatches[g].createdAt

C31_Step ==
    \A g \in GuildsTwo, s \in {CODE_1, CODE_2}, f \in BOOLEAN :
        (Apply(g, s, f) /\ Planned(g)) =>
            /\ Answered("apply", "Expire") <=> AgeOf(g) > PATCH_CONFIRM_TTL_MS
            /\ AgeOf(g) = PATCH_CONFIRM_TTL_MS =>
                   IF CodeOf(s) = pendingPatches[g].code /\ (f \/ ~pendingPatches[g].hasDeletes)
                   THEN Executes
                   ELSE pendingPatches'[g] = pendingPatches[g]
            /\ AgeOf(g) = PATCH_CONFIRM_TTL_MS + 1 =>
                   /\ Answered("apply", "Expire")
                   /\ NothingRuns
                   /\ pendingPatches'[g] = NoPatch

C31_ExpiryBoundary == [][C31_Step]_vars

\* an apply passed the gates exactly one TTL after its plan was made: it
\* came after a plan that another guild made at that time, and no time has
\* passed since
C31_Witness ==
    \E a \in reached, p, q \in stored :
        /\ p.id = a.plan
        /\ q.guild /= p.guild
        /\ q.at = p.at + PATCH_CONFIRM_TTL_MS
        /\ q.id < a.req
        /\ now = q.at

(***************************************************************************)
(* C32: the code gate requires exact equality.  An apply passes gate 3     *)
(* only if the submitted code is character for character the stored        *)
(* confirmation code; a submitted code that differs in any character, be   *)
(* it only in letter case, is answered "invalid code".                     *)
(***************************************************************************)
C32_Step ==
    \A g \in Guilds, s \in SubmittedCodes, f \in BOOLEAN :
        ( /\ Apply(g, s, f)
          /\ Planned(g)
          /\ Unexpired(g)
          /\ s /= pendingPatches[g].code ) =>
            /\ Answered("apply", "Code invalide")
            /\ NothingRuns

C32_ExactCode == [][C32_Step]_vars

(***************************************************************************)
(* C33: every ActionResult carries the source line number and the handler  *)
(* id of the action it reports, for successful actions, for actions whose  *)
(* handler raised and for actions whose handler is unknown alike; the      *)
(* number of successes plus the number of failures is the number of        *)
(* stored actions.                                                         *)
(***************************************************************************)
\* const ok = results.filter(r => r.ok).length, and ko likewise
CountOk(results) == Cardinality({k \in 1..Len(results) : results[k].ok})

CountKo(results) == Cardinality({k \in 1..Len(results) : ~results[k].ok})

C33_ResultShape ==
    /\ \A k \in 1..Len(ex.results) :
          /\ ex.results[k].line = ex.actions[k].line
          /\ ex.results[k].handler = ex.actions[k].handler
    /\ ex.pc = "done" => CountOk(ex.results) + CountKo(ex.results) = Len(ex.actions)

(***************************************************************************)
(* C34: the overflow diagnostic is produced if and only if the number of   *)
(* resolvable lines exceeds maxActions.  A script with exactly maxActions  *)
(* resolvable lines parses without it; once it is appended no further line *)
(* is consumed, so the lines after the overflow point give neither actions *)
(* nor diagnostics, and the overflow diagnostic is the last error.         *)
(***************************************************************************)
ResolvableLines(lines) == {i \in 1..Len(lines) : Resolvable(lines[i])}

\* the line whose action is the first beyond max
OverflowPoint(lines, max) ==
    CHOOSE i \in ResolvableLines(lines) :
        Cardinality({j \in ResolvableLines(lines) : j <= i}) = max + 1

C34_Overflow(lines, max, res) ==
    LET n == Cardinality(ResolvableLines(lines))
    IN  /\ Len(OverflowErrors(res)) = (IF n > max THEN 1 ELSE 0)
        /\ n > max =>
               /\ res.errors[Len(res.errors)].kind = "trop d'actions"
               /\ \A k \in 1..Len(res.actions) :
                      res.actions[k].line <= OverflowPoint(lines, max)
               /\ \A k \in 1..(Len(res.errors) - 1) :
                      res.errors[k].line < OverflowPoint(lines, max)

C34_OverflowBoundary == Parsed => C34_Overflow(pin, pout.max, pout.two)

\* the limit is exceeded before the last line, which no registry entry
\* resolves, and a script of exactly max resolvable lines would not do:
\* here the script has max + 1 of them
C34_Witness ==
    /\ Parsed
    /\ Cardinality(ResolvableLines(pin)) = pout.max + 1
    /\ OverflowPoint(pin, pout.max) < Len(pin)
    /\ Unresolvable(pin[Len(pin)])
    /\ Len(pout.two.errors) = 1

(***************************************************************************)
(* C35: if every handler call eventually returns or raises, every apply    *)
(* that passes the four gates eventually finishes: it returns a result     *)
(* list covering every stored action, and the PendingPatch of its guild is *)
(* deleted.                                                                *)
(***************************************************************************)
\* apply req passed the gates
Passed(req) == \E a \in reached : a.req = req

\* apply req is suspended in applyActions
Running(req) == \E c \in inflight : c.req = req

Finished(req) == Passed(req) /\ ~Running(req)

C35_Step ==
    \A req \in 1..MaxRequests :
        (~Finished(req) /\ Finished(req)') =>
            LET a == CHOOSE x \in reached' : x.req = req
            IN  /\ lastReply'.req = req
                /\ lastReply'.title = "Patch APPLY termine"
                /\ LinesOf(lastReply'.results) = LinesOf(ParsedOf(a.plan))
                /\ pendingPatches'[a.guild] = NoPatch

C35_ApplyFinishes ==
    /\ \A req \in 1..MaxRequests : Passed(req) ~> Finished(req)
    /\ [][C35_Step]_vars

\* an apply that awaited two handler calls, one of which raised, has finished
C35_Witness ==
    /\ inflight = {}
    /\ lastReply.title = "Patch APPLY termine"
    /\ Finished(lastReply.req)
    /\ \E c, d \in calls :
           /\ c.req = lastReply.req
           /\ d.req = lastReply.req
           /\ c.idx /= d.idx
           /\ HandlerSync(c.handler, c.args).kind = "await"
           /\ HandlerSync(d.handler, d.args).kind = "await"
    /\ \E k \in 1..Len(lastReply.results) : lastReply.results[k].error = "introuvable"
    /\ pendingPatches[lastReply.guild] = NoPatch

(***************************************************************************)
(* C36: every stored PendingPatch came from a parse with no errors and     *)
(* holds between 0 and maxActions actions: a script exceeding maxActions   *)
(* is never stored, while a script with no operation lines is stored as a  *)
(* plan with zero actions and receives a confirmation code.                *)
(***************************************************************************)
CleanParse(actions) ==
    \E t \in ScriptsAll : /\ ParsedScript[t].errors = <<>>
                          /\ ParsedScript[t].actions = actions

C36_Stored ==
    \A g \in Guilds :
        Planned(g) =>
            /\ CleanParse(pendingPatches[g].actions)
            /\ Len(pendingPatches[g].actions) \in 0..PATCH_MAX_ACTIONS

C36_Step ==
    \A g \in Guilds, code \in CodePool :
        /\ Plan(g, ScriptOver, code) =>
               /\ pendingPatches' = pendingPatches
               /\ lastReply'.title = "Patch invalide"
               /\ lastReply'.code = <<>>
        /\ Plan(g, ScriptComments, code) =>
               /\ Planned(g)'
               /\ pendingPatches'[g].actions = <<>>
               /\ pendingPatches'[g].code = code
               /\ lastReply'.title = "Patch PLAN (dry-run)"
               /\ lastReply'.code = code
        /\ Plan(g, ScriptDelete, code) =>
               /\ Planned(g)'
               /\ Len(pendingPatches'[g].actions) = PATCH_MAX_ACTIONS

C36_StoredPlans == []C36_Stored /\ [][C36_Step]_vars

\* a plan of zero actions is in the slot, and the plan of an over-long
\* script that came after it was turned down
C36_Witness ==
    \E g \in Guilds :
        /\ Planned(g)
        /\ pendingPatches[g].actions = <<>>
        /\ Len(pendingPatches[g].code) = 6
        /\ lastReply.sub = "plan"
        /\ lastReply.title = "Patch invalide"
        /\ lastReply.req > pendingPatches[g].id

(***************************************************************************)
(* C37: the destructive flag of a stored PendingPatch is true if and only  *)
(* if at least one of its stored actions has handler channel.delete or     *)
(* role.delete; the flag and the action list are written together at plan  *)
(* time and neither is changed afterwards.                                 *)
(***************************************************************************)
FlagMatches(patch) == patch.hasDeletes <=> ContainsDeleteClass(patch.actions)

C37_Flag ==
    /\ \A g \in Guilds : Planned(g) => FlagMatches(pendingPatches[g])
    /\ \A c \in inflight : FlagMatches(c.pending)

C37_Step ==
    /\ \A g \in Guilds, t \in ScriptsHot :
           (Plan(g, t, CODE_1) /\ ParseWith(opsMap, t).errors = <<>>) =>
               /\ pendingPatches'[g].id = nreq'
               /\ pendingPatches'[g].actions = ParseWith(opsMap, t).actions
               /\ pendingPatches'[g].hasDeletes =
                      ContainsDeleteClass(ParseWith(opsMap, t).actions)
    /\ \A g \in Guilds :
           (Planned(g) /\ Planned(g)' /\ pendingPatches'[g].id = pendingPatches[g].id) =>
               /\ pendingPatches'[g].actions = pendingPatches[g].actions
               /\ pendingPatches'[g].hasDeletes = pendingPatches[g].hasDeletes

C37_DestructiveFlag == []C37_Flag /\ [][C37_Step]_vars

\* a stored plan whose only destructive action is a role.delete carries the
\* flag, after an apply without --allow-deletes was turned down by it
C37_Witness ==
    \E g \in Guilds :
        /\ Planned(g)
        /\ pendingPatches[g].hasDeletes
        /\ \A k \in 1..Len(pendingPatches[g].actions) :
               pendingPatches[g].actions[k].handler /= H_channelDelete
        /\ \E k \in 1..Len(pendingPatches[g].actions) :
               pendingPatches[g].actions[k].handler = H_roleDelete
        /\ lastReply.title = "Suppression bloquee"
        /\ \E r \in refused : r.plan = pendingPatches[g].id

(***************************************************************************)
(* C38: reloading the registry leaves every stored PendingPatch unchanged: *)
(* an apply after a reload executes the handlers and bound arguments       *)
(* resolved at plan time, also when the reloaded table maps the same verb  *)
(* and type to another handler or no longer contains the operation.        *)
(***************************************************************************)
\* the calls of the step are those of the actions of patch, at their place
CallsFrom(req, patch) ==
    \A c \in calls' \ calls :
        /\ c.req = req
        /\ c.plan = patch.id
        /\ c.idx \in 1..Len(patch.actions)
        /\ c.handler = patch.actions[c.idx].handler
        /\ c.args = patch.actions[c.idx].args

C38_Step ==
    /\ (OpsReload \/ \E v \in DOMAIN OpsFiles : OpsEdit(v)) =>
           /\ pendingPatches' = pendingPatches
           /\ inflight' = inflight
           /\ calls' = calls
    /\ \A g \in Guilds, t \in ScriptsHot :
           (Plan(g, t, CODE_1) /\ Planned(g)' /\ pendingPatches'[g].id = nreq') =>
               pendingPatches'[g].actions = ParseWith(opsMap, t).actions
    /\ \A g \in Guilds, f \in BOOLEAN :
           (Apply(g, CODE_1, f) /\ Executes) =>
               /\ CallsFrom(nreq', pendingPatches[g])
               /\ \A c \in inflight' \ inflight : c.pending = pendingPatches[g]
    /\ \A c \in inflight, o \in ApiOutcomes :
           ApplySettle(c, o) =>
               /\ CallsFrom(c.req, c.pending)
               /\ \A d \in inflight' \ inflight : d.req = c.req /\ d.pending = c.pending
               /\ (\A d \in inflight' : d.req /= c.req) =>
                      /\ lastReply'.req = c.req
                      /\ LinesOf(lastReply'.results) = LinesOf(c.pending.actions)
                      /\ \A k \in 1..Len(lastReply'.results) :
                             lastReply'.results[k].error = "handler inconnu"
                                 <=> FnOf(c.pending.actions[k].handler) = "undefined"

C38_ReloadKeepsPlans == [][C38_Step]_vars

\* the script of an applied plan
ScriptOfPlan(id) == ScriptList[(CHOOSE p \in stored : p.id = id).script]

\* a plan made with ops.map as shipped was applied after the reload of the
\* edited file: keep role ran the no-op although the table now maps it to
\* role.delete, and keep channel ran although the table no longer has it
C38_Witness ==
    /\ opsMap = 2
    /\ inflight = {}
    /\ lastReply.title = "Patch APPLY termine"
    /\ \E a \in reached :
           /\ a.req = lastReply.req
           /\ ScriptOfPlan(a.plan) = ScriptMixed
           /\ ParseWith(opsMap, ScriptMixed).actions[1].handler = H_roleDelete
           /\ Len(ParseWith(opsMap, ScriptMixed).actions) = 2
           /\ Len(ParseWith(opsMap, ScriptMixed).errors) = 1
           /\ \E c, d \in calls :
                  /\ c.req = a.req /\ c.idx = 1 /\ c.handler = H_noop
                  /\ d.req = a.req /\ d.idx = 3 /\ d.handler = H_noop
           /\ Len(lastReply.results) = 3
           /\ \A k \in 1..3 : lastReply.results[k].ok

(***************************************************************************)
(* C39: every action that is ever executed belongs to a PendingPatch whose *)
(* age was at most the TTL at the moment the executing apply checked its   *)
(* gates, and that apply submitted that PendingPatch's own confirmation    *)
(* code; no action of an expired, cancelled or replaced plan is started by *)
(* an apply whose gate check came after the expiry, cancel or replacement. *)
(***************************************************************************)
\* the handler calls of the step are made for apply req and are actions of
\* the patch it read at its gates
StartedFor(req, patch) ==
    \A c \in calls' \ calls :
        /\ c.req = req
        /\ c.plan = patch.id
        /\ c.idx \in 1..Len(patch.actions)
        /\ c.handler = patch.actions[c.idx].handler

\* an apply that passes its gates found its plan in the slot, not older
\* than the TTL; what it starts, at once and after its awaits, is that plan
C39_Gated(g) ==
    /\ Planned(g)
    /\ AgeOf(g) <= PATCH_CONFIRM_TTL_MS
    /\ StartedFor(nreq', pendingPatches[g])
    /\ \A a \in reached' \ reached : a.req = nreq' /\ a.plan = pendingPatches[g].id
    /\ \A c \in inflight' \ inflight : c.req = nreq' /\ c.pending = pendingPatches[g]

C39_Resumed ==
    \A c \in inflight, o \in ApiOutcomes :
        ApplySettle(c, o) =>
            /\ StartedFor(c.req, c.pending)
            /\ \E a \in reached : a.req = c.req /\ a.plan = c.pending.id
            /\ \A d \in inflight' \ inflight : d.req = c.req /\ d.pending = c.pending

C39_Others ==
    ( \/ \E g \in Guilds : Cancel(g) \/ PlanNoAttachment(g)
      \/ \E g \in Guilds, t \in Scripts, code \in CodePool : Plan(g, t, code)
      \/ \E d \in TickSteps : Tick(d) ) => NothingRuns

C39_Step ==
    /\ \A g \in Guilds, s \in SubmittedCodes, f \in BOOLEAN :
           (Apply(g, s, f) /\ ~NothingRuns) =>
               /\ C39_Gated(g)
               /\ s = pendingPatches[g].code
    /\ C39_Resumed
    /\ C39_Others

C39_OnlyConfirmedPlans == [][C39_Step]_vars

\* the same with the code as the command compares it
C39_StepComparedCode ==
    /\ \A g \in Guilds, s \in SubmittedCodes, f \in BOOLEAN :
           (Apply(g, s, f) /\ ~NothingRuns) =>
               /\ C39_Gated(g)
               /\ CodeOf(s) = pendingPatches[g].code
    /\ C39_Resumed
    /\ C39_Others

C39_ComparedCode == [][C39_StepComparedCode]_vars

====
